---- MODULE Spec2Model ----
(***************************************************************************)
(* Model of the busybus daemon (src/bin/bbusd.c): the method registry, the *)
(* caller map, the client list and the per-message handlers of the main    *)
(* loop.  Strings are sequences of one-character strings, objects are      *)
(* sequences of bytes, pointers to list elements are small integers.       *)
(***************************************************************************)
EXTENDS Integers, Sequences, FiniteSets, TLC

(* ------------------------------ bounds --------------------------------- *)
\* Number of client list elements the daemon allocates in one run.
MaxElems == 3
\* Number of connections the daemon accepts in one run with any input.
MaxClients == 2
\* Number of SRVCALLs a provider socket holds unanswered.
MaxOutstanding == 2
\* Calls every caller issues in the token-correlation scenario.
MaxCalls == 2
\* Threads that use the library in the last-error scenario.
NThreads == 2

(* ------------------------- protocol constants -------------------------- *)
BBUS_MSGTYPE_SRVREG   == 4
BBUS_MSGTYPE_SRVUNREG == 5
BBUS_MSGTYPE_SRVACK   == 6
BBUS_MSGTYPE_CLICALL  == 7
BBUS_MSGTYPE_CLIREPLY == 8
BBUS_MSGTYPE_SRVCALL  == 10
BBUS_MSGTYPE_SRVREPLY == 11
BBUS_MSGTYPE_CLOSE    == 13
BBUS_MSGTYPE_CTRL     == 14

BBUS_PROT_EGOOD      == 0
BBUS_PROT_ENOMETHOD  == 1
BBUS_PROT_EMETHODERR == 2
BBUS_PROT_EMREGERR   == 3

BBUS_PROT_HASMETA   == 1
BBUS_PROT_HASOBJECT == 2

BBUS_CLIENT_CALLER  == 1
BBUS_CLIENT_SERVICE == 2
BBUS_CLIENT_MON     == 3
BBUS_CLIENT_CTL     == 4

METHOD_LOCAL  == 1
METHOD_REMOTE == 2

UINT16_MAX == 65535

\* A uint32_t, kept as its two 16-bit halves: hi * 2^16 + lo.
U32(n) == [hi |-> n \div (UINT16_MAX + 1), lo |-> n % (UINT16_MAX + 1)]

\* A count that does not fit 32 bits: top * 2^32 + low, low a uint32_t.
Big(top, low) == [top |-> top, low |-> low]

BigZero == Big(0, U32(0))

\* UINT_MAX of <limits.h>: 2^32 - 1.
UINT_MAX == [hi |-> UINT16_MAX, lo |-> UINT16_MAX]

\* ++x on a uint32_t.
u32_inc(x) ==
    IF x.lo < UINT16_MAX THEN [x EXCEPT !.lo = @ + 1]
    ELSE [hi |-> (x.hi + 1) % (UINT16_MAX + 1), lo |-> 0]

(* ------------------------------ strings -------------------------------- *)
\* The null pointer of type char*.
NULLSTR == <<"<null>">>
\* The null pointer of type bbus_object*.
NULLOBJ == <<-1>>
\* The null pointer of type struct method*.
NULLMTHD == [type |-> 0]

\* index(s, c): position of the first c in s, 0 when there is none.
index(s, c) ==
    IF \E i \in 1..Len(s) : s[i] = c
    THEN CHOOSE i \in 1..Len(s) : s[i] = c /\ \A j \in 1..(i-1) : s[j] # c
    ELSE 0

\* rindex(s, c): position of the last c in s, 0 when there is none.
rindex(s, c) ==
    IF \E i \in 1..Len(s) : s[i] = c
    THEN CHOOSE i \in 1..Len(s) : s[i] = c /\ \A j \in (i+1)..Len(s) : s[j] # c
    ELSE 0

\* The tail of s that starts after position i.
StrFrom(s, i) == SubSeq(s, i + 1, Len(s))

\* The head of s that ends before position i.
StrUpto(s, i) == SubSeq(s, 1, i - 1)

(* --------------------------- hash maps --------------------------------- *)
EmptyMap == [k \in {} |-> k]

bbus_hmap_has(hmap, key) == key \in DOMAIN hmap

bbus_hmap_set(hmap, key, val) ==
    [k \in (DOMAIN hmap) \cup {key} |-> IF k = key THEN val ELSE hmap[k]]

(* ------------------------- method registry ----------------------------- *)
\* A freshly allocated struct service_tree.
EmptyTree == [subsrvc |-> EmptyMap, methods |-> EmptyMap]

RECURSIVE do_insert_method_overwrite(_, _, _)
\* do_insert_method without the test for a method that already exists.
do_insert_method_overwrite(path, mthd, node) ==
    LET found == index(path, ".") IN
    IF found = 0
    THEN [ret |-> 0,
          node |-> [node EXCEPT !.methods = bbus_hmap_set(@, path, mthd)]]
    ELSE LET comp == StrUpto(path, found)
             next == IF bbus_hmap_has(node.subsrvc, comp)
                     THEN node.subsrvc[comp]
                     ELSE EmptyTree
             sub  == do_insert_method_overwrite(StrFrom(path, found), mthd,
                                                next)
         IN [ret  |-> sub.ret,
             node |-> [node EXCEPT
                          !.subsrvc = bbus_hmap_set(@, comp, sub.node)]]

RECURSIVE do_insert_method(_, _, _)
\* Returns [ret, node]: the return value and the node after the call.
do_insert_method(path, mthd, node) ==
    LET found == index(path, ".") IN
    IF found = 0
    THEN IF bbus_hmap_has(node.methods, path)
         THEN [ret |-> -1, node |-> node]
         ELSE [ret |-> 0,
               node |-> [node EXCEPT !.methods = bbus_hmap_set(@, path, mthd)]]
    ELSE LET comp == StrUpto(path, found)
             next == IF bbus_hmap_has(node.subsrvc, comp)
                     THEN node.subsrvc[comp]
                     ELSE EmptyTree
             sub  == do_insert_method(StrFrom(path, found), mthd, next)
         IN [ret  |-> sub.ret,
             node |-> [node EXCEPT
                          !.subsrvc = bbus_hmap_set(@, comp, sub.node)]]

insert_method(path, mthd, tree) == do_insert_method(path, mthd, tree)

RECURSIVE do_locate_method(_, _)
do_locate_method(path, node) ==
    LET found == index(path, ".") IN
    IF found = 0
    THEN IF bbus_hmap_has(node.methods, path)
         THEN node.methods[path]
         ELSE NULLMTHD
    ELSE LET comp == StrUpto(path, found) IN
         IF ~bbus_hmap_has(node.subsrvc, comp)
         THEN NULLMTHD
         ELSE do_locate_method(StrFrom(path, found), node.subsrvc[comp])

locate_method(path, tree) == do_locate_method(path, tree)

\* mname_from_srvcname: the text after the last dot, null without a dot.
mname_from_srvcname(srvc) ==
    LET found == rindex(srvc, ".") IN
    IF found # 0 THEN StrFrom(srvc, found) ELSE NULLSTR

(* ------------------------- concrete strings ---------------------------- *)
\* "bbus." : the prefix register_service puts before the registered name.
BBUS_PREFIX == <<"b", "b", "u", "s", ".">>
\* "bbus.bbusd.echo" : the path of the daemon's local method.
ECHO_PATH == <<"b", "b", "u", "s", ".", "b", "b", "u", "s", "d", ".", "e", "c", "h", "o">>
\* SRVREG metas "foo,bar,s,s", "foo.bar,s,s" and "foo" (no comma).
META_FOO_BAR_S_S == <<"f", "o", "o", ",", "b", "a", "r", ",", "s", ",", "s">>
META_FOODOTBAR_S_S == <<"f", "o", "o", ".", "b", "a", "r", ",", "s", ",", "s">>
META_FOO == <<"f", "o", "o">>
\* CLICALL metas "bbus.foo", "bbus.foo.bar" and "no.such.method".
PATH_BBUS_FOO == <<"b", "b", "u", "s", ".", "f", "o", "o">>
PATH_BBUS_FOO_BAR == <<"b", "b", "u", "s", ".", "f", "o", "o", ".", "b", "a", "r">>
PATH_NO_SUCH_METHOD == <<"n", "o", ".", "s", "u", "c", "h", ".", "m", "e", "t", "h", "o", "d">>
\* The objects ("s", "X") and a string object without its terminating NUL.
OBJ_X == <<88, 0>>
OBJ_UNTERMINATED == <<88>>
\* The object ("ss", "Y", "Z"): parsed as "s" it gives "Y".
OBJ_Y_Z == <<89, 0, 90, 0>>

RegMetas == {META_FOO_BAR_S_S, META_FOODOTBAR_S_S, META_FOO}
CallMetas == {PATH_BBUS_FOO, PATH_BBUS_FOO_BAR, ECHO_PATH, PATH_NO_SUCH_METHOD}

(* ------------------------------- state --------------------------------- *)
VARIABLES
    clients,     \* the list 'clients': element ids, head first
    monitors,    \* the list 'monitors': the client each element points to
    ctype,       \* bbus_client_gettype of the client of each element
    ctoken,      \* bbus_client_gettoken of the client of each element
    nalloc,      \* number of client elements allocated so far
    curtok,      \* make_token's static counter
    caller_map,  \* hashmap token -> element of the caller
    srvc_tree,   \* root of the service tree
    msgbuf,      \* the message handle_client received last
    cur,         \* the element handle_client was called for last (0: none)
    sent,        \* the bbus_client_sendmsg calls of the last handler
    srvcalls,    \* per element: tokens of the SRVCALLs delivered, unanswered
    daemon,      \* "running" or "crashed"
    first_ins,   \* path -> method of the first insert_method that returned 0
    ncalls,      \* scenario callers: CLICALLs issued
    nreplies,    \* scenario callers: CLIREPLYs received
    fwd,         \* per caller: the objects of its forwarded calls, in order
    got,         \* per caller: the objects of the CLIREPLYs it got, in order
    ready,       \* main: the clients the last bbus_poll reported readable
    retval,      \* main: the count of ready descriptors not yet handled
    tmpcli,      \* main: the position of the dispatch walk (0: NULL)
    ktok,        \* token scenario: the number of calls of make_token made
    conn,        \* accept_client: the session open of the last connection
    run,         \* the flag 'run' that do_run reads and do_stop clears
    mainpc,      \* main: "loop", "cleanup", "monitors" or "exited"
    srvopen,     \* the listener 'server' is open
    nclosed,     \* per element: the calls of bbus_client_close for its client
    status,      \* the value main returned (-1: none yet)
    fnarg,       \* library function scenarios: the arguments of the call
    fnout,       \* library function scenarios: what the call returned
    last_error,  \* error.c: the static last_error
    thr          \* per thread: its last library call and what it read back

\* The variables of the call-order scenario and of the dispatch walk.
order_vars == <<fwd, got>>
walk_vars == <<ready, retval, tmpcli>>
\* The variables of the scenarios that no step of the router changes.
conn_vars == <<conn>>
stop_vars == <<run, mainpc, srvopen, nclosed, status>>
fn_vars == <<fnarg, fnout>>
thr_vars == <<last_error, thr>>
aux_vars == <<conn_vars, stop_vars, fn_vars, thr_vars>>

vars == <<clients, monitors, ctype, ctoken, nalloc, curtok, caller_map,
          srvc_tree, msgbuf, cur, sent, srvcalls, daemon, first_ins,
          ncalls, nreplies, fwd, got, ready, retval, tmpcli, ktok,
          aux_vars>>

Elems == 1..MaxElems

Range(seq) == {seq[i] : i \in 1..Len(seq)}

\* The elements that are in the client list (allocated and not freed).
Live == Range(clients)

\* bbus_list_rm followed by bbus_free: the list without the element.
list_rm(elem, list) == SelectSeq(list, LAMBDA e : e # elem)

\* The sequence without the first occurrence of x.
RemoveFirst(seq, x) ==
    IF x \notin Range(seq) THEN seq
    ELSE LET i == CHOOSE k \in 1..Len(seq) :
                      seq[k] = x /\ \A j \in 1..(k-1) : seq[j] # x
         IN SubSeq(seq, 1, i - 1) \o SubSeq(seq, i + 1, Len(seq))

(* ------------------------ messages and headers ------------------------- *)
\* memset(&hdr, 0, sizeof(struct bbus_msg_hdr))
ZeroHdr ==
    [msgtype |-> 0, errcode |-> 0, token |-> U32(0), psize |-> 0, flags |-> 0]

\* What an uninitialised struct bbus_msg_hdr on the stack can hold: zeroes,
\* or the header an earlier handler left there.
StackHdrs ==
    {ZeroHdr} \cup
    {[msgtype |-> BBUS_MSGTYPE_SRVCALL, errcode |-> 0, token |-> U32(1),
      psize |-> 6, flags |-> 3]}

bbus_hdr_build(hdr, typ, err) == [hdr EXCEPT !.msgtype = typ, !.errcode = err]

bbus_hdr_settoken(hdr, tok) == [hdr EXCEPT !.token = tok]

\* bbus_hdr_setpsize that assigns the size to the 16-bit field as it is.
bbus_hdr_setpsize_truncating(hdr, size) ==
    [hdr EXCEPT !.psize = size % (UINT16_MAX + 1)]

bbus_hdr_setpsize(hdr, size) ==
    [hdr EXCEPT !.psize = IF size > UINT16_MAX THEN UINT16_MAX ELSE size]

\* BBUS_HDR_ISFLAGSET that is true whenever any flag is set.
BBUS_HDR_ISFLAGSET_any(hdr, flag) == hdr.flags # 0

BBUS_HDR_ISFLAGSET(hdr, flag) == (hdr.flags \div flag) % 2 = 1

BBUS_HDR_SETFLAG(hdr, flag) ==
    IF BBUS_HDR_ISFLAGSET(hdr, flag) THEN hdr
    ELSE [hdr EXCEPT !.flags = @ + flag]

\* A received message: the header fields and the two parts of the payload.
Msg(typ, err, tok, flags, meta, obj) ==
    [hdr |-> [msgtype |-> typ, errcode |-> err, token |-> U32(tok),
              psize |-> (IF meta = NULLSTR THEN 0 ELSE Len(meta) + 1)
                        + (IF obj = NULLOBJ THEN 0 ELSE Len(obj)),
              flags |-> flags],
     meta |-> meta, obj |-> obj]

\* memset(msgbuf, 0, BBUS_MAXMSGSIZE)
ZeroMsg == [hdr |-> ZeroHdr, meta |-> NULLSTR, obj |-> NULLOBJ]

bbus_prot_extractmeta(msg) ==
    IF BBUS_HDR_ISFLAGSET(msg.hdr, BBUS_PROT_HASMETA) THEN msg.meta
    ELSE NULLSTR

bbus_prot_extractobj(msg) ==
    IF BBUS_HDR_ISFLAGSET(msg.hdr, BBUS_PROT_HASOBJECT) THEN msg.obj
    ELSE NULLOBJ

bbus_obj_rawsize(obj) == IF obj = NULLOBJ THEN 0 ELSE Len(obj)

\* lm_echo that returns its argument without parsing it.
lm_echo_unparsed(arg) == arg

\* lm_echo: parse the argument as "s" and build ("s", msg) from it.
lm_echo(arg) ==
    LET nul == index(arg, 0) IN
    IF nul = 0 THEN NULLOBJ ELSE SubSeq(arg, 1, nul)

(* ------------------------- bbus_client_sendmsg ------------------------- *)
\* The results sending to an element can have.  For an element of the
\* client list: 0 (sent) or -1 (failed).  For a freed element the call
\* reads freed memory: it may fail, write to the socket of any client that
\* is connected now (the element or the descriptor was reused), or take the
\* daemon down (outcome -2).
SendOutcomes(to) ==
    IF to \in Live
    THEN {[ret |-> 0, dest |-> to], [ret |-> -1, dest |-> 0]}
    ELSE {[ret |-> -1, dest |-> 0], [ret |-> -2, dest |-> 0]}
         \cup {[ret |-> 0, dest |-> d] : d \in Live}

\* One call of bbus_client_sendmsg: the element pointer it was given, the
\* session that received the message (0: nobody), the header and payload.
Sending(to, out, hdr, meta, obj) ==
    [to |-> to, dest |-> out.dest, ret |-> out.ret,
     hdr |-> hdr, meta |-> meta, obj |-> obj]

(* ------------------------------ handlers ------------------------------- *)
\* A send that is not made: used where a handler takes no such branch.
NoSend == [ret |-> 0, dest |-> 0]

\* The outcomes of sending an SRVCALL for the method a CLICALL names: a
\* provider socket that already holds MaxOutstanding calls takes no more.
ForwardOutcomes(msg) ==
    LET mthd == locate_method(bbus_prot_extractmeta(msg), srvc_tree) IN
    IF mthd.type # METHOD_REMOTE THEN {NoSend}
    ELSE {o \in SendOutcomes(mthd.srvc) :
             (o.dest # 0 /\ ctype[o.dest] = BBUS_CLIENT_SERVICE)
                 => Len(srvcalls[o.dest]) < MaxOutstanding}

\* The label 'respond' without the assignment of the send's result to ret:
\* the -1 set before the jump is returned.
clientcall_respond_keep_ret(cli, hdr, retobj, o2) ==
    [ret  |-> -1,
     sent |-> <<Sending(cli, o2, hdr, NULLSTR, retobj)>>]

\* The label 'respond' of handle_clientcall: send the reply to the caller;
\* the return value is that of the send.
clientcall_respond(cli, hdr, retobj, o2) ==
    [ret  |-> IF o2.ret < 0 THEN -1 ELSE o2.ret,
     sent |-> <<Sending(cli, o2, hdr, NULLSTR, retobj)>>]

\* handle_clientcall: [ret, sent].  o1 is the outcome of the send to the
\* provider, o2 the outcome of the send to the caller.
handle_clientcall(cli, msg, o1, o2) ==
    LET mname  == bbus_prot_extractmeta(msg)
        mthd   == locate_method(mname, srvc_tree)
        argobj == bbus_prot_extractobj(msg)
        hdr0   == ZeroHdr
        respond(hdr, retobj) == clientcall_respond(cli, hdr, retobj, o2)
    IN
    IF mname = NULLSTR THEN [ret |-> -1, sent |-> <<>>]
    ELSE IF mthd = NULLMTHD
    THEN respond(bbus_hdr_build(hdr0, BBUS_MSGTYPE_CLIREPLY,
                                BBUS_PROT_ENOMETHOD), NULLOBJ)
    ELSE IF argobj = NULLOBJ THEN [ret |-> -1, sent |-> <<>>]
    ELSE IF mthd.type = METHOD_LOCAL
    THEN LET retobj == lm_echo(argobj) IN
         IF retobj = NULLOBJ
         THEN respond(bbus_hdr_build(hdr0, BBUS_MSGTYPE_CLIREPLY,
                                     BBUS_PROT_EMETHODERR), retobj)
         ELSE respond(bbus_hdr_setpsize(
                          bbus_hdr_build(hdr0, BBUS_MSGTYPE_CLIREPLY,
                                         BBUS_PROT_EGOOD),
                          bbus_obj_rawsize(retobj)), retobj)
    ELSE LET meta == mname_from_srvcname(mname) IN
         IF meta = NULLSTR
         THEN respond(bbus_hdr_build(hdr0, BBUS_MSGTYPE_CLIREPLY,
                                     BBUS_PROT_EMETHODERR), NULLOBJ)
         ELSE LET hdr == bbus_hdr_settoken(
                           bbus_hdr_setpsize(
                             BBUS_HDR_SETFLAG(
                               BBUS_HDR_SETFLAG(
                                 bbus_hdr_build(hdr0, BBUS_MSGTYPE_SRVCALL,
                                                BBUS_PROT_EGOOD),
                                 BBUS_PROT_HASMETA),
                               BBUS_PROT_HASOBJECT),
                             Len(meta) + 1 + bbus_obj_rawsize(argobj)),
                           ctoken[cli])
                  call == Sending(mthd.srvc, o1, hdr, meta, argobj)
              IN IF o1.ret = -2 THEN [ret |-> -2, sent |-> <<call>>]
                 ELSE IF o1.ret < 0
                 THEN LET rsp == respond(
                                   bbus_hdr_build(hdr, BBUS_MSGTYPE_CLIREPLY,
                                                  BBUS_PROT_EMETHODERR),
                                   NULLOBJ)
                      IN [ret |-> rsp.ret, sent |-> <<call>> \o rsp.sent]
                 ELSE [ret |-> 0, sent |-> <<call>>]

\* register_service that takes the text between the first and the second
\* comma for the method name and joins it to the service path with a dot.
register_service_joined(cli, msg, g, o) ==
    LET extrmeta == bbus_prot_extractmeta(msg)
        comma    == index(extrmeta, ",")
        rest     == StrFrom(extrmeta, comma)
        comma2   == index(rest, ",")
        path     == BBUS_PREFIX \o StrUpto(extrmeta, comma) \o <<".">>
                        \o (IF comma2 = 0 THEN rest ELSE StrUpto(rest, comma2))
        mthd     == [type |-> METHOD_REMOTE, srvc |-> cli]
        ins      == insert_method(path, mthd, srvc_tree)
        good     == extrmeta # NULLSTR /\ comma # 0 /\ ins.ret = 0
        hdr      == bbus_hdr_build(g, BBUS_MSGTYPE_SRVACK,
                                   IF good THEN BBUS_PROT_EGOOD
                                   ELSE BBUS_PROT_EMREGERR)
    IN [ret  |-> IF o.ret < 0 THEN -1 ELSE o.ret,
        sent |-> <<Sending(cli, o, hdr, NULLSTR, NULLOBJ)>>,
        tree |-> IF extrmeta # NULLSTR /\ comma # 0 THEN ins.node
                 ELSE srvc_tree,
        path |-> IF good THEN path ELSE NULLSTR,
        mthd |-> mthd]

\* register_service that acknowledges with GOOD whenever the meta has a
\* comma, whatever insert_method returned.
register_service_ack_parsed(cli, msg, g, o) ==
    LET extrmeta == bbus_prot_extractmeta(msg)
        comma    == index(extrmeta, ",")
        path     == BBUS_PREFIX \o StrUpto(extrmeta, comma)
        mthd     == [type |-> METHOD_REMOTE, srvc |-> cli]
        ins      == insert_method(path, mthd, srvc_tree)
        good     == extrmeta # NULLSTR /\ comma # 0
        hdr      == bbus_hdr_build(g, BBUS_MSGTYPE_SRVACK,
                                   IF good THEN BBUS_PROT_EGOOD
                                   ELSE BBUS_PROT_EMREGERR)
    IN [ret  |-> IF o.ret < 0 THEN -1 ELSE o.ret,
        sent |-> <<Sending(cli, o, hdr, NULLSTR, NULLOBJ)>>,
        tree |-> IF extrmeta # NULLSTR /\ comma # 0 THEN ins.node
                 ELSE srvc_tree,
        path |-> IF good /\ ins.ret = 0 THEN path ELSE NULLSTR,
        mthd |-> mthd]

\* register_service: [ret, sent, tree, ins].  g is what the uninitialised
\* header holds, o the outcome of sending the SRVACK; ins is the path and
\* method insert_method accepted (NULLSTR when it accepted none).
register_service(cli, msg, g, o) ==
    LET extrmeta == bbus_prot_extractmeta(msg)
        comma    == index(extrmeta, ",")
        path     == BBUS_PREFIX \o StrUpto(extrmeta, comma)
        mthd     == [type |-> METHOD_REMOTE, srvc |-> cli]
        ins      == insert_method(path, mthd, srvc_tree)
        good     == extrmeta # NULLSTR /\ comma # 0 /\ ins.ret = 0
        hdr      == bbus_hdr_build(g, BBUS_MSGTYPE_SRVACK,
                                   IF good THEN BBUS_PROT_EGOOD
                                   ELSE BBUS_PROT_EMREGERR)
    IN [ret  |-> IF o.ret < 0 THEN -1 ELSE o.ret,
        sent |-> <<Sending(cli, o, hdr, NULLSTR, NULLOBJ)>>,
        tree |-> IF extrmeta # NULLSTR /\ comma # 0 THEN ins.node
                 ELSE srvc_tree,
        path |-> IF good THEN path ELSE NULLSTR,
        mthd |-> mthd]

\* unregister_service and handle_control_message do nothing and return 0.
unregister_service(cli, msg) == 0

handle_control_message(cli, msg) == 0

\* pass_srvc_reply looking the caller up by the token of the provider's
\* client object instead of the token of the message.
pass_srvc_reply_by_client_token(srvc, msg, g, o) ==
    LET tok == ctoken[srvc] IN
    IF ~bbus_hmap_has(caller_map, tok) THEN [ret |-> -1, sent |-> <<>>]
    ELSE LET cli == caller_map[tok]
             obj == bbus_prot_extractobj(msg)
             hdr == IF obj = NULLOBJ
                    THEN bbus_hdr_build(g, BBUS_MSGTYPE_CLIREPLY,
                                        BBUS_PROT_EMETHODERR)
                    ELSE bbus_hdr_setpsize(
                           BBUS_HDR_SETFLAG(
                             bbus_hdr_build(g, BBUS_MSGTYPE_CLIREPLY,
                                            BBUS_PROT_EGOOD),
                             BBUS_PROT_HASOBJECT),
                           bbus_obj_rawsize(obj))
         IN [ret  |-> IF o.ret = -2 THEN -2
                      ELSE IF o.ret < 0 THEN -1 ELSE o.ret,
             sent |-> <<Sending(cli, o, hdr, NULLSTR, obj)>>]

\* pass_srvc_reply: [ret, sent].  g is what the uninitialised header
\* holds, o the outcome of the send to the element found in caller_map.
pass_srvc_reply(srvc, msg, g, o) ==
    LET tok == msg.hdr.token IN
    IF ~bbus_hmap_has(caller_map, tok) THEN [ret |-> -1, sent |-> <<>>]
    ELSE LET cli == caller_map[tok]
             obj == bbus_prot_extractobj(msg)
             hdr == IF obj = NULLOBJ
                    THEN bbus_hdr_build(g, BBUS_MSGTYPE_CLIREPLY,
                                        BBUS_PROT_EMETHODERR)
                    ELSE bbus_hdr_setpsize(
                           BBUS_HDR_SETFLAG(
                             bbus_hdr_build(g, BBUS_MSGTYPE_CLIREPLY,
                                            BBUS_PROT_EGOOD),
                             BBUS_PROT_HASOBJECT),
                           bbus_obj_rawsize(obj))
         IN [ret  |-> IF o.ret = -2 THEN -2
                      ELSE IF o.ret < 0 THEN -1 ELSE o.ret,
             sent |-> <<Sending(cli, o, hdr, NULLSTR, obj)>>]

\* The outcomes of the send pass_srvc_reply makes for a message.
ReplyOutcomes(msg) ==
    IF bbus_hmap_has(caller_map, msg.hdr.token)
    THEN SendOutcomes(caller_map[msg.hdr.token])
    ELSE {NoSend}

\* make_token without the reset of the counter at UINT_MAX.
make_token_no_reset(cur_tok) == u32_inc(cur_tok)

\* make_token: the value returned, which is also the new counter.
make_token(cur_tok) == u32_inc(IF cur_tok = UINT_MAX THEN U32(0) ELSE cur_tok)

(* --------------------------- input messages ---------------------------- *)
CloseMsg == Msg(BBUS_MSGTYPE_CLOSE, 0, 0, 0, NULLSTR, NULLOBJ)

CtrlMsg == Msg(BBUS_MSGTYPE_CTRL, 0, 0, 0, NULLSTR, NULLOBJ)

UnregMsg == Msg(BBUS_MSGTYPE_SRVUNREG, 0, 0, BBUS_PROT_HASMETA,
                META_FOO_BAR_S_S, NULLOBJ)

\* CLICALLs: with meta and object, with meta only, with neither; the
\* unterminated string object is sent to the echo method only.
CallMsgs ==
    {Msg(BBUS_MSGTYPE_CLICALL, 0, 0, 3, m, OBJ_X) : m \in CallMetas}
    \cup {Msg(BBUS_MSGTYPE_CLICALL, 0, 0, 1, m, NULLOBJ)
             : m \in {ECHO_PATH, PATH_NO_SUCH_METHOD}}
    \cup {Msg(BBUS_MSGTYPE_CLICALL, 0, 0, 3, ECHO_PATH, OBJ_UNTERMINATED),
          Msg(BBUS_MSGTYPE_CLICALL, 0, 0, 3, ECHO_PATH, OBJ_Y_Z),
          Msg(BBUS_MSGTYPE_CLICALL, 0, 0, 0, NULLSTR, NULLOBJ)}

\* SRVREGs: with one of the metas, or without meta.
RegMsgs ==
    {Msg(BBUS_MSGTYPE_SRVREG, 0, 0, 1, m, NULLOBJ) : m \in RegMetas}
    \cup {Msg(BBUS_MSGTYPE_SRVREG, 0, 0, 0, NULLSTR, NULLOBJ)}

\* SRVREPLYs: any token; success with an object, an error without one (what
\* the service library sends), an error code together with an object.
ReplyMsgs ==
    {Msg(BBUS_MSGTYPE_SRVREPLY, BBUS_PROT_EGOOD, t, 2, NULLSTR, OBJ_X)
        : t \in 0..MaxElems}
    \cup {Msg(BBUS_MSGTYPE_SRVREPLY, BBUS_PROT_EMETHODERR, t, 0, NULLSTR,
              NULLOBJ) : t \in 0..MaxElems}
    \cup {Msg(BBUS_MSGTYPE_SRVREPLY, BBUS_PROT_ENOMETHOD, t, 2, NULLSTR,
              OBJ_X) : t \in 0..MaxElems}

(* ------------------------------- actions ------------------------------- *)
\* The state after main's start-up, apart from make_token's counter.
\* No connection has been made: conn counts the connections and keeps the
\* first message, the verdict of the authentication and the reply of the
\* last one.
NoConn == [n |-> 0, msgtype |-> 0, sotype |-> 0, auth |-> 0, reply |-> 0]

ConnInit == conn = NoConn

\* main before the loop: run = 1, the listener is open.
StopInit ==
    /\ run = 1
    /\ mainpc = "loop"
    /\ srvopen = TRUE
    /\ nclosed = [e \in 1..MaxElems |-> 0]
    /\ status = -1

\* No library function of the function scenarios has been called.
FnInit == fnarg = <<>> /\ fnout = <<>>

BBUS_ESUCCESS == 10000

Threads == 1..NThreads

\* A thread that has made no library call: 'err' is the error of its last
\* call, 'seen' what its last bbus_lasterror returned.
NoCall == [pc |-> "idle", err |-> BBUS_ESUCCESS, seen |-> BBUS_ESUCCESS]

ThrInit ==
    /\ last_error = BBUS_ESUCCESS
    /\ thr = [t \in Threads |-> NoCall]

AuxInit == ConnInit /\ StopInit /\ FnInit /\ ThrInit

\* The router's state after main's initialisation, but for make_token's
\* counter.
RouterInit ==

    /\ clients = <<>>
    /\ monitors = <<>>
    /\ ctype = [e \in Elems |-> 0]
    /\ ctoken = [e \in Elems |-> U32(0)]
    /\ nalloc = 0
    /\ caller_map = EmptyMap
    /\ srvc_tree = insert_method(ECHO_PATH,
                       [type |-> METHOD_LOCAL, func |-> "lm_echo"],
                       EmptyTree).node
    /\ msgbuf = ZeroMsg
    /\ cur = 0
    /\ sent = <<>>
    /\ srvcalls = [e \in Elems |-> <<>>]
    /\ daemon = "running"
    /\ first_ins = [p \in {ECHO_PATH} |->
                       [type |-> METHOD_LOCAL, func |-> "lm_echo"]]
    /\ ncalls = [e \in Elems |-> 0]
    /\ nreplies = [e \in Elems |-> 0]
    /\ fwd = [e \in Elems |-> <<>>]
    /\ got = [e \in Elems |-> <<>>]
    /\ ready = {}
    /\ retval = 0
    /\ tmpcli = 0

InitRest == AuxInit /\ RouterInit

Init ==
    /\ InitRest
    /\ curtok = U32(0)
    /\ ktok = BigZero

\* accept_client for a connection whose handshake gave the client type.
accept_client(type) ==
    /\ daemon = "running"
    /\ nalloc < MaxElems
    /\ LET elem  == nalloc + 1
           token == make_token(curtok)
       IN /\ nalloc' = elem
          /\ clients' = Append(clients, elem)
          /\ ctype' = [ctype EXCEPT ![elem] = type]
          /\ IF type = BBUS_CLIENT_CALLER
             THEN /\ curtok' = token
                  /\ ctoken' = [ctoken EXCEPT ![elem] = token]
                  /\ caller_map' = bbus_hmap_set(caller_map, token, elem)
             ELSE UNCHANGED <<curtok, ctoken, caller_map>>
          /\ IF type = BBUS_CLIENT_MON
             THEN monitors' = Append(monitors, elem)
             ELSE UNCHANGED monitors
    /\ UNCHANGED <<srvc_tree, msgbuf, cur, sent, srvcalls, daemon, first_ins>>

\* The SRVCALLs a handler delivered, appended to the receiving providers.
DeliverCalls(calls, sends) ==
    [e \in Elems |->
        calls[e] \o
        [i \in 1..Cardinality({k \in 1..Len(sends) :
                                  /\ sends[k].dest = e
                                  /\ ctype[e] = BBUS_CLIENT_SERVICE
                                  /\ sends[k].hdr.msgtype = BBUS_MSGTYPE_SRVCALL})
            |-> sends[1].hdr.token]]

\* send_to_monitors: the sends it makes for a received message (none, the
\* function returns at once).
send_to_monitors(msg) == <<>>

\* What every call of handle_client does around its dispatch: receive into
\* msgbuf, pass a received message to send_to_monitors (after a failed
\* receive msgbuf holds the zeroes of the memset and the call is not
\* reached), and at cli_close free the client and its list element.
Handled(elem, msg, res, close) ==
    /\ cur' = elem
    /\ msgbuf' = msg
    /\ sent' = (IF msg = ZeroMsg THEN <<>> ELSE send_to_monitors(msg))
                   \o res.sent
    /\ daemon' = IF res.ret = -2 THEN "crashed" ELSE "running"
    /\ srvcalls' = DeliverCalls(
                     IF msg.hdr.msgtype = BBUS_MSGTYPE_SRVREPLY
                        /\ ctype[elem] = BBUS_CLIENT_SERVICE
                     THEN [srvcalls EXCEPT
                              ![elem] = RemoveFirst(@, msg.hdr.token)]
                     ELSE srvcalls,
                     res.sent)
    /\ IF close /\ res.ret # -2
       THEN /\ clients' = list_rm(elem, clients)
            /\ ctype' = [ctype EXCEPT ![elem] = 0]
            /\ ctoken' = [ctoken EXCEPT ![elem] = U32(0)]
       ELSE UNCHANGED <<clients, ctype, ctoken>>
    /\ UNCHANGED <<nalloc, curtok, caller_map>>

NoResult == [ret |-> 0, sent |-> <<>>]

\* handle_client when bbus_client_rcvmsg fails: goto cli_close.
handle_client_rcverr(elem) ==
    /\ Handled(elem, ZeroMsg, [ret |-> -1, sent |-> <<>>], TRUE)
    /\ UNCHANGED <<monitors, srvc_tree, first_ins>>

\* handle_client, case BBUS_CLIENT_CALLER.
handle_client_caller(elem, msg, o1, o2) ==
    /\ ctype[elem] = BBUS_CLIENT_CALLER
    /\ IF msg.hdr.msgtype = BBUS_MSGTYPE_CLICALL
       THEN LET res == handle_clientcall(elem, msg, o1, o2)
            IN Handled(elem, msg, res, res.ret < 0)
       ELSE Handled(elem, msg, NoResult, TRUE)
    /\ UNCHANGED <<monitors, srvc_tree, first_ins>>

\* handle_client, case BBUS_CLIENT_SERVICE.
handle_client_service(elem, msg, g, o) ==
    /\ ctype[elem] = BBUS_CLIENT_SERVICE
    /\ IF msg.hdr.msgtype = BBUS_MSGTYPE_SRVREG
       THEN LET res == register_service(elem, msg, g, o)
            IN /\ Handled(elem, msg, res, FALSE)
               /\ srvc_tree' = res.tree
               /\ first_ins' = IF res.path # NULLSTR
                                  /\ ~bbus_hmap_has(first_ins, res.path)
                               THEN bbus_hmap_set(first_ins, res.path, res.mthd)
                               ELSE first_ins
       ELSE /\ IF msg.hdr.msgtype = BBUS_MSGTYPE_SRVUNREG
               THEN Handled(elem, msg,
                        [ret |-> unregister_service(elem, msg), sent |-> <<>>],
                        FALSE)
               ELSE IF msg.hdr.msgtype = BBUS_MSGTYPE_SRVREPLY
               THEN Handled(elem, msg, pass_srvc_reply(elem, msg, g, o), FALSE)
               ELSE Handled(elem, msg, NoResult, TRUE)
            /\ UNCHANGED <<srvc_tree, first_ins>>
    /\ UNCHANGED monitors

\* handle_client for a control client with a CTRL that ends at cli_close.
handle_client_ctl_ctrl_closes(elem, msg) ==
    /\ ctype[elem] = BBUS_CLIENT_CTL
    /\ Handled(elem, msg, NoResult,
               msg.hdr.msgtype \in {BBUS_MSGTYPE_CTRL, BBUS_MSGTYPE_CLOSE})
    /\ UNCHANGED <<monitors, srvc_tree, first_ins>>

\* handle_client, case BBUS_CLIENT_CTL.
handle_client_ctl(elem, msg) ==
    /\ ctype[elem] = BBUS_CLIENT_CTL
    /\ IF msg.hdr.msgtype = BBUS_MSGTYPE_CTRL
       THEN Handled(elem, msg,
                [ret |-> handle_control_message(elem, msg), sent |-> <<>>],
                FALSE)
       ELSE Handled(elem, msg, NoResult, msg.hdr.msgtype = BBUS_MSGTYPE_CLOSE)
    /\ UNCHANGED <<monitors, srvc_tree, first_ins>>

\* The monitor list after handle_client dispatched a monitor's message:
\* the loop over the monitor list is in the CLOSE case only.
monitors_after(elem, msg) ==
    IF msg.hdr.msgtype = BBUS_MSGTYPE_CLOSE
    THEN RemoveFirst(monitors, elem)
    ELSE monitors

\* handle_client, case BBUS_CLIENT_MON: CLOSE removes the monitor's element
\* from the monitor list, every message closes the client.
handle_client_mon(elem, msg) ==
    /\ ctype[elem] = BBUS_CLIENT_MON
    /\ Handled(elem, msg, NoResult, TRUE)
    /\ monitors' = monitors_after(elem, msg)
    /\ UNCHANGED <<srvc_tree, first_ins>>

\* One call of handle_client for an element of the client list.
handle_client(elem) ==
    /\ daemon = "running"
    /\ elem \in Live
    /\ \/ handle_client_rcverr(elem)
       \/ \E msg \in CallMsgs \cup {CloseMsg, CtrlMsg} :
             \E o1 \in ForwardOutcomes(msg), o2 \in SendOutcomes(elem) :
                handle_client_caller(elem, msg, o1, o2)
       \/ \E msg \in RegMsgs : \E g \in StackHdrs, o \in SendOutcomes(elem) :
             handle_client_service(elem, msg, g, o)
       \/ \E msg \in ReplyMsgs : \E g \in StackHdrs, o \in ReplyOutcomes(msg) :
             handle_client_service(elem, msg, g, o)
       \/ \E msg \in {UnregMsg, CloseMsg, CtrlMsg} :
             handle_client_service(elem, msg, ZeroHdr, NoSend)
       \/ \E msg \in {CtrlMsg, CloseMsg, UnregMsg} : handle_client_ctl(elem, msg)
       \/ \E msg \in {CloseMsg, CtrlMsg} : handle_client_mon(elem, msg)

AcceptStep ==
    /\ nalloc < MaxClients
    /\ \E type \in {BBUS_CLIENT_CALLER, BBUS_CLIENT_SERVICE,
                    BBUS_CLIENT_MON, BBUS_CLIENT_CTL} : accept_client(type)
    /\ UNCHANGED <<ncalls, nreplies, order_vars, walk_vars, ktok, aux_vars>>

HandleStep ==
    /\ \E elem \in Elems : handle_client(elem)
    /\ UNCHANGED <<ncalls, nreplies, order_vars, walk_vars, ktok, aux_vars>>

Next == AcceptStep \/ HandleStep

Spec == Init /\ [][Next]_vars

(* ---------------------- derived views of the state --------------------- *)
RECURSIVE TreeMethods(_)
\* Every struct method a service tree holds.
TreeMethods(node) ==
    {node.methods[k] : k \in DOMAIN node.methods}
    \cup UNION {TreeMethods(node.subsrvc[k]) : k \in DOMAIN node.subsrvc}

\* The remote methods of the registry.
RemoteMethods == {m \in TreeMethods(srvc_tree) : m.type = METHOD_REMOTE}

\* A call with this token was forwarded to a provider that is still
\* connected and has not answered it.
Pending(tok) == \E p \in Live : tok \in Range(srvcalls[p])

\* Tokens that callers of the model can hold.
Tokens == {U32(t) : t \in 1..MaxElems}

\* The sends of the last handler that have the message type.
SentOfType(typ) == {i \in 1..Len(sent) : sent[i].hdr.msgtype = typ}

(* ------------------------------- C1 ------------------------------------ *)
\* C1: once a provider session is closed no registry entry targets it, and
\* no SRVCALL is sent through the element of a closed provider.
C1_NoEntryForClosedProvider ==
    /\ \A m \in RemoteMethods : m.srvc \in Live
    /\ \A i \in SentOfType(BBUS_MSGTYPE_SRVCALL) : sent[i].to \in Live

(* ------------------------------- C2 ------------------------------------ *)
\* C2: caller_map holds token -> C exactly when a CLICALL of caller C was
\* forwarded as an SRVCALL and neither the SRVREPLY nor the provider's
\* death has been seen since.
C2_CallerMapIsPendingCalls ==
    \A tok \in Tokens :
        bbus_hmap_has(caller_map, tok) <=> Pending(tok)

(* ------------------------------- C3 ------------------------------------ *)
\* C3: once a caller session is closed no caller_map entry refers to it, and
\* no CLIREPLY is sent through the element of a closed caller.
C3_NoEntryForClosedCaller ==
    /\ \A tok \in DOMAIN caller_map : caller_map[tok] \in Live
    /\ \A i \in SentOfType(BBUS_MSGTYPE_CLIREPLY) : sent[i].to \in Live

(* ------------------------------- C5 ------------------------------------ *)
\* The main loop keeps polling: a step that is possible is taken.
FairSpec == Spec /\ WF_vars(Next)

\* The caller holding the token got a CLIREPLY with errcode METHODERR from
\* the last handler.
NotifiedMethodErr(tok) ==
    \E i \in SentOfType(BBUS_MSGTYPE_CLIREPLY) :
        /\ sent[i].hdr.errcode = BBUS_PROT_EMETHODERR
        /\ sent[i].dest # 0
        /\ ctoken[sent[i].dest] = tok

\* A call with this token was forwarded to a provider that closed before
\* answering it.
Orphaned(tok) ==
    \E p \in 1..nalloc : p \notin Live /\ tok \in Range(srvcalls[p])

\* The caller that was given the token is connected.
CallerConnected(tok) == \E c \in Live : ctoken[c] = tok

\* C5: when a provider is gone while a call forwarded to it is unanswered,
\* the caller of that call eventually gets CLIREPLY/METHODERR and the
\* pending-call table drops the call.  A caller that disconnects first, and
\* a daemon that has stopped, owe nothing.
C5_OrphanedCallAnswered ==
    \A tok \in Tokens :
        (Orphaned(tok) /\ CallerConnected(tok))
            ~> \/ NotifiedMethodErr(tok) /\ ~bbus_hmap_has(caller_map, tok)
               \/ ~CallerConnected(tok)
               \/ daemon # "running"

(* ------------------------------- C6 ------------------------------------ *)
\* The last handler was pass_srvc_reply and it found a caller.
PassedReply ==
    /\ cur # 0
    /\ ctype[cur] = BBUS_CLIENT_SERVICE
    /\ msgbuf.hdr.msgtype = BBUS_MSGTYPE_SRVREPLY
    /\ sent # <<>>

\* C6: the CLIREPLY made from an SRVREPLY has the SRVREPLY's token and
\* errcode, and HAS_OBJECT when the provider succeeded.
C6_ReplyCarriesTokenAndErrcode ==
    PassedReply =>
        \A i \in 1..Len(sent) :
            /\ sent[i].hdr.msgtype = BBUS_MSGTYPE_CLIREPLY
            /\ sent[i].hdr.token = msgbuf.hdr.token
            /\ sent[i].hdr.errcode = msgbuf.hdr.errcode
            /\ (msgbuf.hdr.errcode = BBUS_PROT_EGOOD
                   => BBUS_HDR_ISFLAGSET(sent[i].hdr, BBUS_PROT_HASOBJECT))

(* ------------------------------- C7 ------------------------------------ *)
\* C7: handling an SRVREPLY whose token has no pending call sends nothing.
C7_UnmatchedReplyDiscarded ==
    [][(/\ cur' # 0
        /\ nalloc' = nalloc
        /\ ctype[cur'] = BBUS_CLIENT_SERVICE
        /\ msgbuf'.hdr.msgtype = BBUS_MSGTYPE_SRVREPLY
        /\ ~Pending(msgbuf'.hdr.token))
       => sent' = <<>>]_vars

(* ------------------------------- C9 ------------------------------------ *)
\* The last handler was handle_clientcall for a CLICALL that has an object
\* and names a remote method, and the send to the provider reported no error.
ForwardedCall ==
    /\ cur # 0
    /\ msgbuf.hdr.msgtype = BBUS_MSGTYPE_CLICALL
    /\ locate_method(bbus_prot_extractmeta(msgbuf), srvc_tree).type
           = METHOD_REMOTE
    /\ bbus_prot_extractobj(msgbuf) # NULLOBJ
    /\ sent # <<>>
    /\ sent[1].ret # -1

\* C9: such a CLICALL gives exactly one SRVCALL, received by the provider
\* session that registered the path, with flags HAS_META|HAS_OBJECT, the
\* leaf name as meta, the caller's object and token; the pair token ->
\* caller is in the caller map and the caller gets no CLIREPLY.
C9_CallForwardedToProvider ==
    ForwardedCall =>
        LET mthd == locate_method(bbus_prot_extractmeta(msgbuf), srvc_tree)
            leaf == StrFrom(msgbuf.meta, rindex(msgbuf.meta, "."))
        IN /\ Len(sent) = 1
           /\ sent[1].hdr.msgtype = BBUS_MSGTYPE_SRVCALL
           /\ sent[1].ret = 0
           /\ sent[1].dest = mthd.srvc
           /\ mthd.srvc \in Live
           /\ ctype[mthd.srvc] = BBUS_CLIENT_SERVICE
           /\ sent[1].hdr.flags = BBUS_PROT_HASMETA + BBUS_PROT_HASOBJECT
           /\ sent[1].meta = leaf
           /\ sent[1].obj = msgbuf.obj
           /\ sent[1].hdr.token = ctoken[cur]
           /\ bbus_hmap_has(caller_map, ctoken[cur])
           /\ caller_map[ctoken[cur]] = cur

(* ------------------------------- C10 ----------------------------------- *)
\* The last handler was handle_clientcall for a CLICALL whose meta names a
\* path that locate_method does not find.
CalledUnknownPath ==
    /\ cur # 0
    /\ msgbuf.hdr.msgtype = BBUS_MSGTYPE_CLICALL
    /\ bbus_prot_extractmeta(msgbuf) # NULLSTR
    /\ locate_method(bbus_prot_extractmeta(msgbuf), srvc_tree) = NULLMTHD
    /\ \/ cur \notin Live
       \/ ctype[cur] = BBUS_CLIENT_CALLER

\* The one message handle_clientcall sends for an unknown path: a CLIREPLY
\* to the caller, errcode NOMETHOD, no object, nothing to any provider.
OnlyNoMethodReply ==
    /\ Len(sent) = 1
    /\ sent[1].to = cur
    /\ sent[1].hdr.msgtype = BBUS_MSGTYPE_CLIREPLY
    /\ sent[1].hdr.errcode = BBUS_PROT_ENOMETHOD
    /\ sent[1].obj = NULLOBJ
    /\ ~BBUS_HDR_ISFLAGSET(sent[1].hdr, BBUS_PROT_HASOBJECT)

\* C10 as stated: the caller gets that reply and its session stays open.
C10_UnknownPathAnswered ==
    CalledUnknownPath =>
        /\ OnlyNoMethodReply
        /\ sent[1].dest = cur
        /\ cur \in Live

\* C10 amended: the reply is sent once; the session stays open exactly when
\* sending it succeeded, and is closed when the send failed.
C10_UnknownPathAnsweredOrClosed ==
    CalledUnknownPath =>
        /\ OnlyNoMethodReply
        /\ sent[1].dest \in {0, cur}
        /\ (sent[1].ret = 0) <=> (sent[1].dest = cur)
        /\ (sent[1].ret = 0) <=> (cur \in Live)

\* A caller was told NOMETHOD and is still connected.
C10_Witness ==
    /\ CalledUnknownPath
    /\ OnlyNoMethodReply
    /\ sent[1].dest = cur
    /\ cur \in Live

(* ------------------------------- C4 ------------------------------------ *)
\* The token-correlation scenario: NCallers callers and one provider that
\* registers "foo"; every caller issues MaxCalls blocking calls of bbus.foo,
\* the provider answers every SRVCALL once, in any order, with the token it
\* got; nobody closes and no send fails.
NCallers == 2

Delivered(o) == o.ret = 0

CallersOf(list) == {e \in Range(list) : ctype[e] = BBUS_CLIENT_CALLER}

ProvidersOf(list) == {e \in Range(list) : ctype[e] = BBUS_CLIENT_SERVICE}

\* The CLIREPLYs of the last handler, counted at the sessions they reached.
CountReplies(counts, sends) ==
    [e \in Elems |->
        counts[e] + Cardinality({i \in 1..Len(sends) :
                                    /\ sends[i].dest = e
                                    /\ sends[i].hdr.msgtype
                                           = BBUS_MSGTYPE_CLIREPLY})]

CorrAccept ==
    /\ \/ /\ Cardinality(CallersOf(clients)) < NCallers
          /\ accept_client(BBUS_CLIENT_CALLER)
       \/ /\ ProvidersOf(clients) = {}
          /\ accept_client(BBUS_CLIENT_SERVICE)
    /\ UNCHANGED <<ncalls, nreplies, order_vars, walk_vars, ktok, aux_vars>>

CorrRegister ==
    /\ RemoteMethods = {}
    /\ \E p \in ProvidersOf(clients) : \E g \in StackHdrs :
          /\ daemon = "running"
          /\ handle_client_service(p,
                 Msg(BBUS_MSGTYPE_SRVREG, 0, 0, 1, META_FOO_BAR_S_S, NULLOBJ),
                 g, [ret |-> 0, dest |-> p])
    /\ UNCHANGED <<ncalls, nreplies, order_vars, walk_vars, ktok, aux_vars>>

CorrCall ==
    \E c \in CallersOf(clients) :
        LET msg == Msg(BBUS_MSGTYPE_CLICALL, 0, 0, 3, PATH_BBUS_FOO, OBJ_X) IN
        /\ daemon = "running"
        /\ RemoteMethods # {}
        /\ ncalls[c] < MaxCalls
        /\ ncalls[c] = nreplies[c]
        /\ \E o1 \in {o \in ForwardOutcomes(msg) : Delivered(o)} :
              handle_client_caller(c, msg, o1, NoSend)
        /\ ncalls' = [ncalls EXCEPT ![c] = @ + 1]
        /\ nreplies' = CountReplies(nreplies, sent')
        /\ UNCHANGED <<order_vars, walk_vars, ktok, aux_vars>>

CorrReply ==
    \E p \in ProvidersOf(clients) : \E k \in 1..Len(srvcalls[p]) :
        \E obj \in {OBJ_X, NULLOBJ} : \E g \in StackHdrs :
            LET tok == srvcalls[p][k]
                msg == [hdr |-> [msgtype |-> BBUS_MSGTYPE_SRVREPLY,
                                 errcode |-> IF obj = NULLOBJ
                                             THEN BBUS_PROT_EMETHODERR
                                             ELSE BBUS_PROT_EGOOD,
                                 token |-> tok,
                                 psize |-> bbus_obj_rawsize(obj),
                                 flags |-> IF obj = NULLOBJ THEN 0
                                           ELSE BBUS_PROT_HASOBJECT],
                        meta |-> NULLSTR, obj |-> obj]
            IN /\ daemon = "running"
               /\ \E o \in {x \in ReplyOutcomes(msg) : Delivered(x)} :
                     handle_client_service(p, msg, g, o)
               /\ nreplies' = CountReplies(nreplies, sent')
               /\ UNCHANGED <<ncalls, order_vars, walk_vars, ktok, aux_vars>>

CorrNext == CorrAccept \/ CorrRegister \/ CorrCall \/ CorrReply

SpecCorr == Init /\ [][CorrNext]_vars

\* The number of unanswered SRVCALLs that carry the token.
Unanswered(tok) ==
    Cardinality({<<p, k>> \in Elems \X (1..MaxOutstanding) :
                    k <= Len(srvcalls[p]) /\ srvcalls[p][k] = tok})

\* C4: a relayed CLIREPLY reaches the caller whose token is the SRVREPLY's,
\* and every caller has as many replies as calls once its calls are
\* answered: MaxCalls when it has issued them all.
C4_TokenCorrelation ==
    /\ msgbuf.hdr.msgtype = BBUS_MSGTYPE_SRVREPLY =>
          /\ Len(sent) = 1
          /\ sent[1].hdr.msgtype = BBUS_MSGTYPE_CLIREPLY
          /\ sent[1].dest \in CallersOf(clients)
          /\ ctoken[sent[1].dest] = msgbuf.hdr.token
    /\ \A c \in CallersOf(clients) :
          /\ nreplies[c] + Unanswered(ctoken[c]) = ncalls[c]
          /\ (ncalls[c] = MaxCalls /\ Unanswered(ctoken[c]) = 0)
                => nreplies[c] = MaxCalls
    /\ \A e \in Elems \ CallersOf(clients) : nreplies[e] = 0

\* Every caller of the scenario has issued all its calls and has all its
\* replies, the last one just relayed.
C4_Witness ==
    /\ Cardinality(CallersOf(clients)) = NCallers
    /\ \A c \in CallersOf(clients) : nreplies[c] = MaxCalls
    /\ msgbuf.hdr.msgtype = BBUS_MSGTYPE_SRVREPLY

(* ------------------------------- C8 ------------------------------------ *)
\* Registration only: providers connect and send SRVREGs for the names
\* "foo", "foo.bar", "foo.", "" and "bbusd.echo" (the local method's name).
RegNames == {<<"f", "o", "o">>, <<"f", "o", "o", ".", "b", "a", "r">>, <<"f", "o", "o", ".">>, <<>>, <<"b", "b", "u", "s", "d", ".", "e", "c", "h", "o">>}

RegSpecMsgs ==
    {Msg(BBUS_MSGTYPE_SRVREG, 0, 0, 1, n \o <<",", "s", ",", "s">>, NULLOBJ)
        : n \in RegNames}

\* The path register_service makes of an SRVREG meta that has a comma.
RegPath(meta) == BBUS_PREFIX \o StrUpto(meta, index(meta, ","))

\* The paths that are looked up: every path that can be registered, and
\* "bbus", "bbus.bbusd", "foo" and "no.such.method", which cannot.
LookupPaths ==
    {BBUS_PREFIX \o n : n \in RegNames}
    \cup {<<"b", "b", "u", "s">>, <<"b", "b", "u", "s", ".", "b", "b", "u", "s", "d">>, META_FOO, PATH_NO_SUCH_METHOD}

RegAccept ==
    /\ nalloc < MaxClients
    /\ accept_client(BBUS_CLIENT_SERVICE)
    /\ UNCHANGED <<ncalls, nreplies, order_vars, walk_vars, ktok, aux_vars>>

RegRegister ==
    /\ daemon = "running"
    /\ \E p \in Live : \E msg \in RegSpecMsgs :
          \E g \in StackHdrs, o \in SendOutcomes(p) :
             handle_client_service(p, msg, g, o)
    /\ UNCHANGED <<ncalls, nreplies, order_vars, walk_vars, ktok, aux_vars>>

RegNext == RegAccept \/ RegRegister

SpecReg == Init /\ [][RegNext]_vars

\* Every lookup gives the method of the first insert that succeeded for the
\* path, and nothing for a path no insert succeeded for.
LookupGivesFirstInsert ==
    \A p \in LookupPaths :
        locate_method(p, srvc_tree) =
            IF bbus_hmap_has(first_ins, p) THEN first_ins[p] ELSE NULLMTHD

\* An SRVREG for a path that is registered is answered MREGERR and changes
\* the result of no lookup.
SecondInsertFails ==
    (/\ nalloc' = nalloc
     /\ msgbuf'.hdr.msgtype = BBUS_MSGTYPE_SRVREG
     /\ bbus_hmap_has(first_ins, RegPath(msgbuf'.meta)))
    => /\ Len(sent') = 1
       /\ sent'[1].hdr.msgtype = BBUS_MSGTYPE_SRVACK
       /\ sent'[1].hdr.errcode = BBUS_PROT_EMREGERR
       /\ \A p \in LookupPaths :
             locate_method(p, srvc_tree') = locate_method(p, srvc_tree)

\* C8: locate_method returns the entry of the first successful
\* insert_method of the path and none for a path never inserted; a second
\* insert_method of a path fails with SRVACK/MREGERR and changes no lookup.
C8_RegistryUnique == []LookupGivesFirstInsert /\ [][SecondInsertFails]_vars

\* A provider was refused a path that another provider holds, and the
\* lookup of the path still gives the first provider's method.
C8_Witness ==
    /\ cur # 0
    /\ msgbuf.hdr.msgtype = BBUS_MSGTYPE_SRVREG
    /\ sent[1].hdr.errcode = BBUS_PROT_EMREGERR
    /\ locate_method(RegPath(msgbuf.meta), srvc_tree).type = METHOD_REMOTE
    /\ locate_method(RegPath(msgbuf.meta), srvc_tree).srvc # cur

(* ------------------------------- C11 ----------------------------------- *)
\* The last handler was handle_clientcall for a CLICALL that has an object
\* and names a local method.
CalledLocal ==
    /\ cur # 0
    /\ msgbuf.hdr.msgtype = BBUS_MSGTYPE_CLICALL
    /\ locate_method(bbus_prot_extractmeta(msgbuf), srvc_tree).type
           = METHOD_LOCAL
    /\ bbus_prot_extractobj(msgbuf) # NULLOBJ

\* The string an object starts with: its bytes before the first NUL.
ObjString(obj) == StrUpto(obj, index(obj, 0))

\* C11: a CLICALL of a local method gives exactly one send, a CLIREPLY to
\* the caller without meta: for bbus.bbusd.echo it has errcode GOOD and an
\* object whose string is the argument's string when the argument holds a
\* string, and errcode METHODERR and no object when it does not.
C11_LocalCallAnswered ==
    CalledLocal =>
        /\ Len(sent) = 1
        /\ sent[1].to = cur
        /\ sent[1].hdr.msgtype = BBUS_MSGTYPE_CLIREPLY
        /\ sent[1].meta = NULLSTR
        /\ IF index(msgbuf.obj, 0) # 0
           THEN /\ sent[1].hdr.errcode = BBUS_PROT_EGOOD
                /\ sent[1].obj # NULLOBJ
                /\ index(sent[1].obj, 0) # 0
                /\ ObjString(sent[1].obj) = ObjString(msgbuf.obj)
           ELSE /\ sent[1].hdr.errcode = BBUS_PROT_EMETHODERR
                /\ sent[1].obj = NULLOBJ

\* The echo method was called with ("ss", "Y", "Z") and the caller got "Y".
C11_Witness ==
    /\ CalledLocal
    /\ msgbuf.obj = OBJ_Y_Z
    /\ sent[1].ret = 0
    /\ sent[1].dest = cur
    /\ ObjString(sent[1].obj) = <<89>>

(* ------------------------------- C12 ----------------------------------- *)
\* The last handler was handle_clientcall and its send of the SRVCALL to the
\* provider failed.
ForwardFailed ==
    /\ cur # 0
    /\ msgbuf.hdr.msgtype = BBUS_MSGTYPE_CLICALL
    /\ sent # <<>>
    /\ sent[1].hdr.msgtype = BBUS_MSGTYPE_SRVCALL
    /\ sent[1].ret = -1

\* The same handler sent the caller a CLIREPLY with errcode METHODERR and
\* no object.
RepliedMethodErr ==
    /\ Len(sent) = 2
    /\ sent[2].to = cur
    /\ sent[2].hdr.msgtype = BBUS_MSGTYPE_CLIREPLY
    /\ sent[2].hdr.errcode = BBUS_PROT_EMETHODERR
    /\ sent[2].obj = NULLOBJ

\* C12: when the send of the SRVCALL fails, the same handler sends the
\* caller a CLIREPLY with errcode METHODERR, and the pending-call table has
\* no entry for the token of the call.
C12_FailedForwardAnswered ==
    ForwardFailed =>
        /\ RepliedMethodErr
        /\ ~bbus_hmap_has(caller_map, sent[1].hdr.token)

(* ------------------------------- C13 ----------------------------------- *)
\* The call-order scenario: NCallers callers and one provider of bbus.foo
\* that answers every call with the object of the call.  A caller sends up
\* to MaxCalls CLICALLs without waiting for replies, its k-th call with the
\* object CallObj(k); the provider answers the calls it holds in any order;
\* nobody closes and no send fails.
CallObj(k) == <<87 + k, 0>>

\* The objects of the CLIREPLYs of the last handler, appended at the
\* sessions that received them.
DeliverReplies(seqs, sends) ==
    [e \in Elems |->
        IF /\ Len(sends) = 1
           /\ sends[1].dest = e
           /\ sends[1].hdr.msgtype = BBUS_MSGTYPE_CLIREPLY
        THEN Append(seqs[e], sends[1].obj)
        ELSE seqs[e]]

OrdCall ==
    \E c \in CallersOf(clients) :
        LET msg == Msg(BBUS_MSGTYPE_CLICALL, 0, 0, 3, PATH_BBUS_FOO,
                       CallObj(Len(fwd[c]) + 1))
        IN /\ daemon = "running"
           /\ RemoteMethods # {}
           /\ Len(fwd[c]) < MaxCalls
           /\ \E o1 \in {o \in ForwardOutcomes(msg) : Delivered(o)} :
                 handle_client_caller(c, msg, o1, NoSend)
           /\ fwd' = [fwd EXCEPT ![c] = Append(@, msg.obj)]
           /\ UNCHANGED <<got, ncalls, nreplies, walk_vars, ktok, aux_vars>>

OrdReply ==
    \E p \in ProvidersOf(clients) : \E c \in CallersOf(clients) :
        \E obj \in Range(fwd[c]) \ Range(got[c]) : \E g \in StackHdrs :
            LET msg == [hdr |-> [msgtype |-> BBUS_MSGTYPE_SRVREPLY,
                                 errcode |-> BBUS_PROT_EGOOD,
                                 token |-> ctoken[c],
                                 psize |-> bbus_obj_rawsize(obj),
                                 flags |-> BBUS_PROT_HASOBJECT],
                        meta |-> NULLSTR, obj |-> obj]
            IN /\ daemon = "running"
               /\ \E o \in {x \in ReplyOutcomes(msg) : Delivered(x)} :
                     handle_client_service(p, msg, g, o)
               /\ got' = DeliverReplies(got, sent')
               /\ UNCHANGED <<fwd, ncalls, nreplies, walk_vars, ktok, aux_vars>>

OrdNext == CorrAccept \/ CorrRegister \/ OrdCall \/ OrdReply

SpecOrder == Init /\ [][OrdNext]_vars

\* C13: at every caller the CLIREPLYs arrive in the order of its forwarded
\* calls: the i-th reply it got answers its i-th forwarded call.
C13_RepliesInCallOrder ==
    \A c \in CallersOf(clients) :
        /\ Len(got[c]) <= Len(fwd[c])
        /\ \A i \in 1..Len(got[c]) : got[c][i] = fwd[c][i]

(* ------------------------------- C14 ----------------------------------- *)
\* The last call of handle_client received a message.
Received == cur # 0 /\ msgbuf # ZeroMsg

\* The monitor sessions that are connected.
MonitorsOf(list) == {e \in Range(list) : ctype[e] = BBUS_CLIENT_MON}

\* C14: a received message is sent once, header and payload, to every
\* connected monitor other than its sender, before anything the dispatch
\* sends.
C14_MonitorsGetCopy ==
    Received =>
        \A m \in MonitorsOf(clients) \ {cur} :
            /\ Cardinality({i \in 1..Len(sent) : sent[i].to = m}) = 1
            /\ \E i \in 1..Len(sent) :
                  /\ sent[i].to = m
                  /\ sent[i].hdr = msgbuf.hdr
                  /\ sent[i].meta = msgbuf.meta
                  /\ sent[i].obj = msgbuf.obj
                  /\ \A j \in 1..(i-1) : sent[j].to \in MonitorsOf(clients)

(* ------------------------------- C15 ----------------------------------- *)
\* The dispatch walk of the main loop, one step per test of its loop
\* condition.  Connections are accepted between walks; bbus_poll reports
\* any non-empty set of clients readable; a readable client has hung up
\* (the receive fails) or has sent one of WalkMsgs.
WalkMsgs ==
    {CloseMsg, CtrlMsg, UnregMsg,
     Msg(BBUS_MSGTYPE_CLICALL, 0, 0, 3, ECHO_PATH, OBJ_X)}

\* elem->next in a list: the element after elem, 0 (NULL) after the tail.
list_next(elem, list) ==
    LET k == CHOOSE j \in 1..Len(list) : list[j] = elem IN
    IF k = Len(list) THEN 0 ELSE list[k + 1]

WalkAccept ==
    /\ retval = 0
    /\ AcceptStep

\* bbus_poll returns the number of readable clients; the walk starts at
\* clients.head.
WalkPoll ==
    /\ daemon = "running"
    /\ retval = 0
    /\ \E rd \in (SUBSET Live) \ {{}} :
          /\ ready' = rd
          /\ retval' = Cardinality(rd)
    /\ tmpcli' = clients[1]
    /\ UNCHANGED <<clients, monitors, ctype, ctoken, nalloc, curtok,
                   caller_map, srvc_tree, msgbuf, cur, sent, srvcalls,
                   daemon, first_ins, ncalls, nreplies, order_vars, ktok,
                   aux_vars>>

\* tmpcli is in the poll set: handle_client(&tmpcli), which leaves tmpcli
\* NULL when it closes the client; then --retval, and tmpcli = tmpcli->next
\* unless tmpcli is NULL.
WalkHandle ==
    /\ retval > 0
    /\ tmpcli # 0
    /\ tmpcli \in ready
    /\ handle_client(tmpcli)
    /\ msgbuf' \in WalkMsgs \cup {ZeroMsg}
    /\ retval' = retval - 1
    /\ tmpcli' = IF tmpcli \in Range(clients') THEN list_next(tmpcli, clients')
                 ELSE 0
    /\ UNCHANGED <<ready, ncalls, nreplies, order_vars, ktok, aux_vars>>

\* tmpcli is not in the poll set: tmpcli = tmpcli->next.
WalkSkip ==
    /\ daemon = "running"
    /\ retval > 0
    /\ tmpcli # 0
    /\ tmpcli \notin ready
    /\ tmpcli' = list_next(tmpcli, clients)
    /\ UNCHANGED <<clients, monitors, ctype, ctoken, nalloc, curtok,
                   caller_map, srvc_tree, msgbuf, cur, sent, srvcalls,
                   daemon, first_ins, ncalls, nreplies, order_vars, ktok,
                   aux_vars,
                   ready, retval>>

\* retval > 0 and tmpcli is NULL: the loop reads tmpcli->cli through the
\* null pointer and the daemon is killed by the signal.
WalkNull ==
    /\ daemon = "running"
    /\ retval > 0
    /\ tmpcli = 0
    /\ daemon' = "crashed"
    /\ UNCHANGED <<clients, monitors, ctype, ctoken, nalloc, curtok,
                   caller_map, srvc_tree, msgbuf, cur, sent, srvcalls,
                   first_ins, ncalls, nreplies, order_vars, ktok, aux_vars,
                   walk_vars>>

WalkNext == WalkAccept \/ WalkPoll \/ WalkHandle \/ WalkSkip \/ WalkNull

SpecWalk == Init /\ [][WalkNext]_vars

\* C15: the daemon keeps running, and while clients reported ready remain
\* to be handled the walk stands at an element of the client list.
C15_WalkSurvivesClose ==
    /\ daemon = "running"
    /\ retval > 0 => tmpcli \in Live

(* ------------------------------- C16 ----------------------------------- *)
\* The message types handle_client has a handler for, by client type.
Appropriate(type, msgtype) ==
    \/ type = BBUS_CLIENT_CALLER /\ msgtype = BBUS_MSGTYPE_CLICALL
    \/ type = BBUS_CLIENT_SERVICE
          /\ msgtype \in {BBUS_MSGTYPE_SRVREG, BBUS_MSGTYPE_SRVUNREG,
                          BBUS_MSGTYPE_SRVREPLY}
    \/ type = BBUS_CLIENT_CTL /\ msgtype = BBUS_MSGTYPE_CTRL

\* C16: a session that is still in the client list after handle_client
\* received a message from it sent a message appropriate for its type.
C16_UnexpectedMessageCloses ==
    (Received /\ cur \in Live)
        => Appropriate(ctype[cur], msgbuf.hdr.msgtype)

(* ------------------------------- C17 ----------------------------------- *)
\* A step of handle_client whose receive failed, for a client of the list.
HangupStep ==
    /\ nalloc' = nalloc
    /\ msgbuf' = ZeroMsg
    /\ cur' \in Live

\* The step leaves the lists, the caller map and the registry as the
\* handling of a CLOSE message from the same client does.
HangupLikeClose ==
    HangupStep =>
        /\ clients' = list_rm(cur', clients)
        /\ monitors' = IF ctype[cur'] = BBUS_CLIENT_MON
                       THEN monitors_after(cur', CloseMsg)
                       ELSE monitors
        /\ caller_map' = caller_map
        /\ srvc_tree' = srvc_tree

\* C17: for every client type a receive failure leaves the daemon in the
\* state a CLOSE message from that client leaves it in.
C17_HangupEqualsClose == [][HangupLikeClose]_vars

(* ------------------------------- C18 ----------------------------------- *)
\* The last handler was register_service for an SRVREG with this meta, and
\* it answered SRVACK with errcode GOOD.
RegisteredNow(meta) ==
    /\ cur # 0
    /\ msgbuf.hdr.msgtype = BBUS_MSGTYPE_SRVREG
    /\ bbus_prot_extractmeta(msgbuf) = meta
    /\ sent # <<>>
    /\ sent[1].hdr.msgtype = BBUS_MSGTYPE_SRVACK
    /\ sent[1].hdr.errcode = BBUS_PROT_EGOOD

\* The remote method of a provider.
RemoteOf(srvc) == [type |-> METHOD_REMOTE, srvc |-> srvc]

\* The last handler was handle_clientcall for a CLICALL of bbus.foo.bar that
\* has an object, and the path names a method of a connected provider.
CalledFooBar ==
    /\ cur # 0
    /\ msgbuf.hdr.msgtype = BBUS_MSGTYPE_CLICALL
    /\ bbus_prot_extractmeta(msgbuf) = PATH_BBUS_FOO_BAR
    /\ bbus_prot_extractobj(msgbuf) # NULLOBJ
    /\ locate_method(PATH_BBUS_FOO_BAR, srvc_tree).type = METHOD_REMOTE
    /\ locate_method(PATH_BBUS_FOO_BAR, srvc_tree).srvc \in Live

Unregistered ==
    /\ cur \in Live
    /\ ctype[cur] = BBUS_CLIENT_SERVICE
    /\ msgbuf.hdr.msgtype = BBUS_MSGTYPE_SRVUNREG

\* C19: after an SRVUNREG the lookup of the path it names misses, and the
\* handler sent the provider an SRVACK.
C19_UnregisterRemovesPath ==
    Unregistered =>
        /\ locate_method(RegPath(bbus_prot_extractmeta(msgbuf)), srvc_tree)
               = NULLMTHD
        /\ Len(sent) = 1
        /\ sent[1].to = cur
        /\ sent[1].hdr.msgtype = BBUS_MSGTYPE_SRVACK

(* ------------------------------- C20 ----------------------------------- *)
\* Calls of make_token that the token scenario makes from each start.
MaxTokCalls == 25

\* k + 1 for a count k.
big_inc(k) ==
    Big(IF k.low = UINT_MAX THEN k.top + 1 ELSE k.top, u32_inc(k.low))

RECURSIVE mod_uint_max(_)
\* k mod (2^32 - 1): 2^32 is 1 modulo 2^32 - 1, so one from the top part
\* is worth one added to the low part.
mod_uint_max(k) ==
    IF k.top = 0
    THEN IF k.low = UINT_MAX THEN U32(0) ELSE k.low
    ELSE mod_uint_max(Big(k.top - 1,
                          IF k.low = UINT_MAX THEN U32(1)
                          ELSE u32_inc(k.low)))

\* The counter of make_token after k calls, for the counts k the scenario
\* starts from: 0, 65530, 2^32 - 11, 2^32 + 65529 and 2 * (2^32 - 1) - 10.
TokStarts ==
    {[k |-> BigZero, tok |-> U32(0)],
     [k |-> Big(0, U32(UINT16_MAX - 5)), tok |-> U32(UINT16_MAX - 5)],
     [k   |-> Big(0, [hi |-> UINT16_MAX, lo |-> UINT16_MAX - 10]),
      tok |-> [hi |-> UINT16_MAX, lo |-> UINT16_MAX - 10]],
     [k |-> Big(1, U32(UINT16_MAX - 6)), tok |-> U32(UINT16_MAX - 5)],
     [k   |-> Big(1, [hi |-> UINT16_MAX, lo |-> UINT16_MAX - 11]),
      tok |-> [hi |-> UINT16_MAX, lo |-> UINT16_MAX - 10]]}

RECURSIVE KAfter(_, _)
\* k + n.
KAfter(k, n) == IF n = 0 THEN k ELSE KAfter(big_inc(k), n - 1)

\* The counts at which the scenario makes a further call.
TokWindow == {KAfter(s.k, j) : s \in TokStarts, j \in 0..(MaxTokCalls - 1)}

TokInit ==
    /\ InitRest
    /\ \E s \in TokStarts : curtok = s.tok /\ ktok = s.k

\* One call of make_token.
TokCall ==
    /\ ktok \in TokWindow
    /\ curtok' = make_token(curtok)
    /\ ktok' = big_inc(ktok)
    /\ UNCHANGED <<clients, monitors, ctype, ctoken, nalloc, caller_map,
                   srvc_tree, msgbuf, cur, sent, srvcalls, daemon,
                   first_ins, ncalls, nreplies, order_vars, walk_vars,
                   aux_vars>>

SpecTok == TokInit /\ [][TokCall]_vars

\* After k calls the next call, the (k+1)-th, returns (k mod (2^32 - 1)) + 1,
\* which is not 0.
NextToken ==
    /\ curtok' # U32(0)
    /\ curtok' = u32_inc(mod_uint_max(ktok))

\* C20: make_token never returns 0, and its k-th call returns
\* ((k - 1) mod (2^32 - 1)) + 1: the token after UINT32_MAX is 1.
C20_TokenSequence == [][NextToken]_vars

\* 2^32 calls were made: the one before the last returned UINT32_MAX and
\* the last returned 1.
C20_Witness == ktok = Big(1, U32(0)) /\ curtok = U32(1)

(* ------------------------------- C21 ----------------------------------- *)
\* The daemon after make_token has gone through nearly all of its values:
\* the caller accepted first, with token 1, is still connected, every caller
\* accepted after it has been closed, and the counter stands one or two
\* calls before its reset.  Of caller_map only the entry of the connected
\* caller is kept: the entries of the closed callers are keyed by tokens
\* other than 1 and are never read for a live caller.
WrapInit ==
    /\ clients = <<1>>
    /\ monitors = <<>>
    /\ ctype = [e \in Elems |-> IF e = 1 THEN BBUS_CLIENT_CALLER ELSE 0]
    /\ ctoken = [e \in Elems |-> IF e = 1 THEN U32(1) ELSE U32(0)]
    /\ nalloc = 1
    /\ curtok \in {UINT_MAX, [hi |-> UINT16_MAX, lo |-> UINT16_MAX - 1]}
    /\ caller_map = bbus_hmap_set(EmptyMap, U32(1), 1)
    /\ srvc_tree = insert_method(ECHO_PATH,
                       [type |-> METHOD_LOCAL, func |-> "lm_echo"],
                       EmptyTree).node
    /\ msgbuf = ZeroMsg
    /\ cur = 0
    /\ sent = <<>>
    /\ srvcalls = [e \in Elems |-> <<>>]
    /\ daemon = "running"
    /\ first_ins = [p \in {ECHO_PATH} |->
                       [type |-> METHOD_LOCAL, func |-> "lm_echo"]]
    /\ ncalls = [e \in Elems |-> 0]
    /\ nreplies = [e \in Elems |-> 0]
    /\ fwd = [e \in Elems |-> <<>>]
    /\ got = [e \in Elems |-> <<>>]
    /\ ready = {}
    /\ retval = 0
    /\ tmpcli = 0
    /\ ktok = BigZero
    /\ AuxInit

SpecWrap == WrapInit /\ [][Next]_vars

\* The callers in the client list.
LiveCallers == {c \in Live : ctype[c] = BBUS_CLIENT_CALLER}

\* C21: no two live callers hold the same token, and caller_map maps the
\* token of every live caller to that caller, also after make_token has
\* started again from 1.
C21_LiveTokensUnique ==
    \A c \in LiveCallers :
        /\ \A d \in LiveCallers : c # d => ctoken[c] # ctoken[d]
        /\ bbus_hmap_has(caller_map, ctoken[c])
        /\ caller_map[ctoken[c]] = c

(* ------------------------------- C22 ----------------------------------- *)
\* Connections made to the listener in one run of the accept scenario.
MaxConns == 3

BBUS_MSGTYPE_SO     == 1
BBUS_MSGTYPE_SOOK   == 2
BBUS_MSGTYPE_SORJCT == 3

BBUS_SOTYPE_NONE   == 0
BBUS_SOTYPE_MTHCL  == 1
BBUS_SOTYPE_SRVPRV == 2
BBUS_SOTYPE_MON    == 3
BBUS_SOTYPE_CTL    == 4

BBUS_SRV_AUTHOK  == 0
BBUS_SRV_AUTHERR == -1

\* The client type a session-open type asks for (0: none).
client_type(sotype) ==
    IF sotype = BBUS_SOTYPE_MTHCL THEN BBUS_CLIENT_CALLER
    ELSE IF sotype = BBUS_SOTYPE_SRVPRV THEN BBUS_CLIENT_SERVICE
    ELSE IF sotype = BBUS_SOTYPE_MON THEN BBUS_CLIENT_MON
    ELSE IF sotype = BBUS_SOTYPE_CTL THEN BBUS_CLIENT_CTL
    ELSE 0

\* bbus_srv_accept: the server's side of the session open.  The first
\* message must be an SO naming one of the four client types and the
\* authentication must not say unauthorized; then the reply is SOOK and the
\* result a client of that type, otherwise the reply is SORJCT and the
\* result NULL (cli = 0).
bbus_srv_accept(first, auth) ==
    IF /\ first.msgtype = BBUS_MSGTYPE_SO
       /\ client_type(first.sotype) # 0
       /\ auth = BBUS_SRV_AUTHOK
    THEN [cli |-> client_type(first.sotype), reply |-> BBUS_MSGTYPE_SOOK]
    ELSE [cli |-> 0, reply |-> BBUS_MSGTYPE_SORJCT]

\* accept_client that goes on after bbus_srv_accept returned NULL.
accept_connection_unchecked(first, auth) ==
    /\ conn' = [n |-> conn.n + 1, msgtype |-> first.msgtype,
                sotype |-> first.sotype, auth |-> auth,
                reply |-> bbus_srv_accept(first, auth).reply]
    /\ accept_client(first.sotype)

\* accept_client from its call of bbus_srv_accept: a NULL result is logged
\* and nothing else is done.
accept_connection(first, auth) ==
    LET r == bbus_srv_accept(first, auth) IN
    /\ conn' = [n |-> conn.n + 1, msgtype |-> first.msgtype,
                sotype |-> first.sotype, auth |-> auth, reply |-> r.reply]
    /\ IF r.cli = 0
       THEN /\ daemon = "running"
            /\ UNCHANGED <<clients, monitors, ctype, ctoken, nalloc, curtok,
                           caller_map, srvc_tree, msgbuf, cur, sent,
                           srvcalls, daemon, first_ins>>
       ELSE accept_client(r.cli)

\* The first messages of the connections: an SO for each session-open type
\* and for a type that does not exist, and messages that are not an SO.
FirstMsgs ==
    {[msgtype |-> BBUS_MSGTYPE_SO, sotype |-> t] :
        t \in {BBUS_SOTYPE_NONE, BBUS_SOTYPE_MTHCL, BBUS_SOTYPE_SRVPRV,
               BBUS_SOTYPE_MON, BBUS_SOTYPE_CTL, 5}}
    \cup {[msgtype |-> BBUS_MSGTYPE_CLICALL, sotype |-> BBUS_SOTYPE_MTHCL],
          [msgtype |-> BBUS_MSGTYPE_CLOSE, sotype |-> BBUS_SOTYPE_NONE]}

\* The listener is readable: accept_client runs for one connection.
ConnAccept ==
    /\ conn.n < MaxConns
    /\ nalloc < MaxClients
    /\ \E first \in FirstMsgs, auth \in {BBUS_SRV_AUTHOK, BBUS_SRV_AUTHERR} :
          accept_connection(first, auth)
    /\ UNCHANGED <<ncalls, nreplies, order_vars, walk_vars, ktok,
                   stop_vars, fn_vars, thr_vars>>

\* handle_client for a client that closes, hangs up or sends a CTRL, an
\* SRVUNREG or an echo call.
ConnHandle ==
    /\ HandleStep
    /\ msgbuf' \in WalkMsgs \cup {ZeroMsg}

ConnNext == ConnAccept \/ ConnHandle

SpecConn == Init /\ [][ConnNext]_vars

\* The session open of a connection succeeds.
HandshakeOk(c) ==
    /\ c.msgtype = BBUS_MSGTYPE_SO
    /\ c.sotype \in {BBUS_SOTYPE_MTHCL, BBUS_SOTYPE_SRVPRV, BBUS_SOTYPE_MON,
                     BBUS_SOTYPE_CTL}
    /\ c.auth = BBUS_SRV_AUTHOK

\* A step that adds to a structure of the daemon: an element to the client
\* list or the monitor list, a token, or an entry of the caller map.
AddsToDaemon ==
    \/ Range(clients') \ Range(clients) # {}
    \/ Range(monitors') \ Range(monitors) # {}
    \/ nalloc' # nalloc
    \/ curtok' # curtok
    \/ caller_map' # caller_map
    \/ \E e \in Elems : ctype[e] = 0 /\ ctype'[e] # 0

\* What a step that handles a connection does: after a session open that
\* succeeds the new element is the tail of the client list and has the type
\* asked for, only a caller gets a token and a caller-map entry and only a
\* monitor an element of the monitor list; after any other session open
\* nothing of the daemon changes.
ConnectionEnters ==
    /\ AddsToDaemon => conn'.n # conn.n /\ HandshakeOk(conn')
    /\ conn'.n # conn.n /\ ~HandshakeOk(conn') =>
           /\ conn'.reply = BBUS_MSGTYPE_SORJCT
           /\ UNCHANGED <<clients, monitors, ctype, ctoken, nalloc, curtok,
                          caller_map, srvc_tree>>
    /\ conn'.n # conn.n /\ HandshakeOk(conn') =>
           /\ conn'.reply = BBUS_MSGTYPE_SOOK
           /\ clients' = Append(clients, nalloc')
           /\ ctype'[nalloc'] = client_type(conn'.sotype)
           /\ (caller_map' # caller_map \/ curtok' # curtok) =>
                  /\ conn'.sotype = BBUS_SOTYPE_MTHCL
                  /\ caller_map'[ctoken'[nalloc']] = nalloc'
           /\ monitors' # monitors =>
                  /\ conn'.sotype = BBUS_SOTYPE_MON
                  /\ monitors' = Append(monitors, nalloc')

\* C22: a connection enters the client list, and for a caller the caller
\* map, for a monitor the monitor list, only after its session open
\* succeeded; a connection whose session open is rejected is added to no
\* structure of the daemon.
C22_OnlyAcceptedEnter == [][ConnectionEnters]_vars

\* A caller was accepted, and the connection after it was rejected by the
\* authentication and left the daemon with that one client.
C22_Witness ==
    /\ conn.n = 2
    /\ conn.msgtype = BBUS_MSGTYPE_SO
    /\ conn.sotype = BBUS_SOTYPE_MTHCL
    /\ conn.auth = BBUS_SRV_AUTHERR
    /\ conn.reply = BBUS_MSGTYPE_SORJCT
    /\ clients = <<1>>
    /\ ctype[1] = BBUS_CLIENT_CALLER
    /\ DOMAIN caller_map = {U32(1)}

(* ------------------------------- C23 ----------------------------------- *)
\* The main loop with its signal handler and the cleanup after it.  The
\* loop tests do_run() before every poll; the walk of SpecWalk is the
\* iteration.
StopAccept == mainpc = "loop" /\ run = 1 /\ WalkAccept

StopPoll == mainpc = "loop" /\ run = 1 /\ WalkPoll

StopHandle == mainpc = "loop" /\ WalkHandle

StopSkip == mainpc = "loop" /\ WalkSkip

StopNull == mainpc = "loop" /\ WalkNull

\* sighandler for SIGINT or SIGTERM: do_stop.
sighandler ==
    /\ mainpc # "exited"
    /\ daemon = "running"
    /\ run' = 0
    /\ UNCHANGED <<clients, monitors, ctype, ctoken, nalloc, curtok,
                   caller_map, srvc_tree, msgbuf, cur, sent, srvcalls,
                   daemon, first_ins, ncalls, nreplies, order_vars,
                   walk_vars, ktok, conn_vars, mainpc, srvopen, nclosed,
                   status, fn_vars, thr_vars>>

\* The head of a list, 0 (NULL) when it is empty.
list_head(list) == IF list = <<>> THEN 0 ELSE list[1]

\* do_run() returns 0: the loop ends, bbus_srv_close(server), and the first
\* cleanup loop starts at clients.head.
StopLeave ==
    /\ mainpc = "loop"
    /\ daemon = "running"
    /\ retval = 0
    /\ run = 0
    /\ srvopen' = FALSE
    /\ mainpc' = "cleanup"
    /\ tmpcli' = list_head(clients)
    /\ UNCHANGED <<clients, monitors, ctype, ctoken, nalloc, curtok,
                   caller_map, srvc_tree, msgbuf, cur, sent, srvcalls,
                   daemon, first_ins, ncalls, nreplies, order_vars, ready,
                   retval, ktok, conn_vars, run, nclosed, status, fn_vars,
                   thr_vars>>

\* What the read of tmpcli->next gives after bbus_free(tmpcli): the pointer
\* stored before the free, NULL, or a pointer the next iteration faults on.
FreedNext == {"next", "null", "wild"}

\* tmpcli = tmpcli->next for an element of the list that has been freed.
freed_next(elem, list, outcome) ==
    IF outcome = "next" THEN list_next(elem, list)
    ELSE IF outcome = "null" THEN 0
    ELSE elem

\* One turn of the first cleanup loop: bbus_client_close and
\* bbus_client_free of tmpcli's client, bbus_free(tmpcli), and then the
\* loop's tmpcli = tmpcli->next.
StopCloseClient ==
    /\ mainpc = "cleanup"
    /\ daemon = "running"
    /\ tmpcli # 0
    /\ nclosed' = [nclosed EXCEPT ![tmpcli] = @ + 1]
    /\ \E outcome \in FreedNext :
          /\ tmpcli' = freed_next(tmpcli, clients, outcome)
          /\ daemon' = IF outcome = "wild" THEN "crashed" ELSE "running"
    /\ UNCHANGED <<clients, monitors, ctype, ctoken, nalloc, curtok,
                   caller_map, srvc_tree, msgbuf, cur, sent, srvcalls,
                   first_ins, ncalls, nreplies, order_vars, ready, retval,
                   ktok, conn_vars, run, mainpc, srvopen, status, fn_vars,
                   thr_vars>>

\* The first cleanup loop ends at tmpcli = NULL; the second starts at
\* monitors.head.
StopMonitors ==
    /\ mainpc = "cleanup"
    /\ daemon = "running"
    /\ tmpcli = 0
    /\ mainpc' = "monitors"
    /\ tmpcli' = list_head(monitors)
    /\ UNCHANGED <<clients, monitors, ctype, ctoken, nalloc, curtok,
                   caller_map, srvc_tree, msgbuf, cur, sent, srvcalls,
                   daemon, first_ins, ncalls, nreplies, order_vars, ready,
                   retval, ktok, conn_vars, run, srvopen, nclosed, status,
                   fn_vars, thr_vars>>

\* One turn of the second cleanup loop: bbus_free(tmpcli) for an element of
\* the monitor list, then tmpcli = tmpcli->next.
StopFreeMonitor ==
    /\ mainpc = "monitors"
    /\ daemon = "running"
    /\ tmpcli # 0
    /\ \E outcome \in FreedNext :
          /\ tmpcli' = freed_next(tmpcli, monitors, outcome)
          /\ daemon' = IF outcome = "wild" THEN "crashed" ELSE "running"
    /\ UNCHANGED <<clients, monitors, ctype, ctoken, nalloc, curtok,
                   caller_map, srvc_tree, msgbuf, cur, sent, srvcalls,
                   first_ins, ncalls, nreplies, order_vars, ready, retval,
                   ktok, conn_vars, stop_vars, fn_vars, thr_vars>>

\* The second cleanup loop ends: main returns 0.
StopExit ==
    /\ mainpc = "monitors"
    /\ daemon = "running"
    /\ tmpcli = 0
    /\ mainpc' = "exited"
    /\ status' = 0
    /\ UNCHANGED <<clients, monitors, ctype, ctoken, nalloc, curtok,
                   caller_map, srvc_tree, msgbuf, cur, sent, srvcalls,
                   daemon, first_ins, ncalls, nreplies, order_vars,
                   walk_vars, ktok, conn_vars, run, srvopen, nclosed,
                   fn_vars, thr_vars>>

StopNext ==
    \/ StopAccept \/ StopPoll \/ StopHandle \/ StopSkip \/ StopNull
    \/ sighandler \/ StopLeave \/ StopCloseClient \/ StopMonitors
    \/ StopFreeMonitor \/ StopExit

SpecStop == Init /\ [][StopNext]_vars

\* After the loop the daemon does not fault, the listener is closed, no
\* client is closed twice, and when main has returned it returned 0 and
\* every client that was in the list was closed once.
ShutdownClean ==
    /\ mainpc # "loop" => daemon = "running" /\ ~srvopen
    /\ \A e \in Elems : nclosed[e] <= 1
    /\ mainpc = "exited" =>
           /\ status = 0
           /\ \A e \in Range(clients) : nclosed[e] = 1

\* A step that changes the run flag clears it and changes nothing else;
\* with the flag cleared the loop starts no further iteration, and after
\* the loop no client is handled or accepted.
ShutdownStep ==
    /\ run' # run =>
           /\ run' = 0
           /\ UNCHANGED <<clients, monitors, ctype, ctoken, nalloc, curtok,
                          caller_map, srvc_tree, msgbuf, cur, sent,
                          srvcalls, daemon, first_ins, walk_vars, mainpc,
                          srvopen, nclosed, status>>
    /\ (run = 0 /\ retval = 0 /\ mainpc = "loop" /\ run' = run) =>
           mainpc' = "cleanup"
    /\ mainpc # "loop" =>
           UNCHANGED <<clients, monitors, nalloc, msgbuf, cur, sent, ready,
                       retval, caller_map, srvc_tree>>

\* C23: the signal handler changes only the run flag; with the flag cleared
\* the loop ends after the iteration in progress and handles no further
\* message; the daemon then closes the listener, closes every remaining
\* client exactly once and returns 0.
C23_SignalStopsCleanly == []ShutdownClean /\ [][ShutdownStep]_vars

(* ------------------------------- C24 ----------------------------------- *)
\* The step is handle_client for a control client that sent a CTRL.
CtrlHandled ==
    /\ nalloc' = nalloc
    /\ cur' \in Live
    /\ ctype[cur'] = BBUS_CLIENT_CTL
    /\ msgbuf'.hdr.msgtype = BBUS_MSGTYPE_CTRL

\* The daemon runs on, the control client is still in the client list, and
\* the client list, the monitor list, the caller map and the service tree
\* are what they were.
CtrlNotFatal ==
    CtrlHandled =>
        /\ daemon' = "running"
        /\ cur' \in Range(clients')
        /\ ctype'[cur'] = BBUS_CLIENT_CTL
        /\ UNCHANGED <<clients, monitors, caller_map, srvc_tree>>

\* C24: a CTRL from a control client is never fatal: the daemon keeps
\* running, the control session stays open, and the registry, the client
\* list, the monitor list and the caller map are unchanged.
C24_CtrlNeverFatal == [][CtrlNotFatal]_vars

\* A control client sent a CTRL while a second client was connected, and is
\* still connected.
C24_Witness ==
    /\ cur \in Live
    /\ ctype[cur] = BBUS_CLIENT_CTL
    /\ msgbuf.hdr.msgtype = BBUS_MSGTYPE_CTRL
    /\ Len(clients) = 2
    /\ daemon = "running"

(* ------------------------------- C25 ----------------------------------- *)
\* Payload bytes of the messages the extraction scenario enumerates.
MaxPayload == 3

\* "meta string" and "meta string without null" as bytes.
STR_META_STRING == <<109, 101, 116, 97, 32, 115, 116, 114, 105, 110, 103>>
STR_WITHOUT_NULL ==
    STR_META_STRING \o
    <<32, 119, 105, 116, 104, 111, 117, 116, 32, 110, 117, 108, 108>>
\* "a string" as bytes.
STR_A_STRING == <<97, 32, 115, 116, 114, 105, 110, 103>>
\* The eight object bytes of prot_extract_meta_and_obj.
OBJ_11_TO_88 == <<17, 34, 51, 68, 85, 102, 119, 136>>

\* A message buffer: the header, and the bytes that follow it in the buffer
\* (the array of a test ends with the NUL of its string literal).
RawMsg(psize, flags, payload) ==
    [hdr |-> [ZeroHdr EXCEPT !.msgtype = 1, !.psize = psize,
                             !.flags = flags],
     payload |-> payload]

\* The message buffers of the tests in unit_prot.c.
MSG_extract_obj == RawMsg(9, 2, STR_A_STRING \o <<0, 0>>)
MSG_extract_meta == RawMsg(12, 1, STR_META_STRING \o <<0, 0>>)
MSG_extract_meta_and_obj ==
    RawMsg(20, 3, STR_META_STRING \o <<0>> \o OBJ_11_TO_88 \o <<0>>)
MSG_extract_invalid_meta == RawMsg(12, 1, STR_WITHOUT_NULL \o <<0>>)
MSG_extract_flags_not_set ==
    RawMsg(20, 0, STR_META_STRING \o <<0>> \o OBJ_11_TO_88 \o <<0>>)

TestMsgs ==
    {MSG_extract_obj, MSG_extract_meta, MSG_extract_meta_and_obj,
     MSG_extract_invalid_meta, MSG_extract_flags_not_set}

RECURSIVE ByteSeqs(_)
\* The byte strings of a length over the bytes 0 and 65.
ByteSeqs(n) ==
    IF n = 0 THEN {<<>>}
    ELSE {Append(b, x) : b \in ByteSeqs(n - 1), x \in {0, 65}}

\* Every buffer of up to MaxPayload bytes with every payload size that
\* fits it and every combination of the two flags, and the tests' buffers.
ProtMsgs ==
    TestMsgs \cup
    UNION {{RawMsg(n, f, b) : f \in 0..3,
                              b \in UNION {ByteSeqs(k) : k \in n..MaxPayload}}
           : n \in 0..MaxPayload}

\* What bbus_prot_extractmeta returns for no meta: NULL.
NULLMETA == <<-1>>

bbus_hdr_getpsize(hdr) == hdr.psize

RECURSIVE first_nul(_, _, _)
\* The position of the first NUL among the bytes i..n of a buffer, 0 when
\* there is none.
first_nul(buf, i, n) ==
    IF i > n THEN 0
    ELSE IF buf[i] = 0 THEN i
    ELSE first_nul(buf, i + 1, n)

\* bbus_prot_extractmeta on a message buffer: with HAS_META set and a NUL
\* within the first psize bytes of the payload, the string at the start of
\* the payload; NULL otherwise.
extractmeta(msg) ==
    IF ~BBUS_HDR_ISFLAGSET(msg.hdr, BBUS_PROT_HASMETA) THEN NULLMETA
    ELSE LET k == first_nul(msg.payload, 1, bbus_hdr_getpsize(msg.hdr))
         IN IF k = 0 THEN NULLMETA ELSE SubSeq(msg.payload, 1, k - 1)

\* bbus_prot_extractobj on a message buffer: NULL without HAS_OBJECT;
\* otherwise the object made of the payload bytes after the meta string
\* (from the start without HAS_META) up to psize.  With HAS_META set and no
\* meta string within psize there is no start to locate: NULL.
extractobj(msg) ==
    IF ~BBUS_HDR_ISFLAGSET(msg.hdr, BBUS_PROT_HASOBJECT) THEN NULLOBJ
    ELSE IF ~BBUS_HDR_ISFLAGSET(msg.hdr, BBUS_PROT_HASMETA)
    THEN SubSeq(msg.payload, 1, bbus_hdr_getpsize(msg.hdr))
    ELSE LET meta == extractmeta(msg)
         IN IF meta = NULLMETA THEN NULLOBJ
            ELSE SubSeq(msg.payload, Len(meta) + 2,
                        bbus_hdr_getpsize(msg.hdr))

\* Nothing has been called on the message.
NoRet == [fn |-> "none", ret |-> NULLOBJ]

ProtInit ==
    /\ ConnInit /\ StopInit /\ ThrInit /\ RouterInit
    /\ curtok = U32(0)
    /\ ktok = BigZero
    /\ fnarg \in ProtMsgs
    /\ fnout = NoRet

\* meta = bbus_prot_extractmeta(msg)
ProtMeta ==
    /\ fnout' = [fn |-> "extractmeta", ret |-> extractmeta(fnarg)]
    /\ UNCHANGED <<clients, monitors, ctype, ctoken, nalloc, curtok,
                   caller_map, srvc_tree, msgbuf, cur, sent, srvcalls,
                   daemon, first_ins, ncalls, nreplies, order_vars,
                   walk_vars, ktok, conn_vars, stop_vars, fnarg, thr_vars>>

\* obj = bbus_prot_extractobj(msg)
ProtObj ==
    /\ fnout' = [fn |-> "extractobj", ret |-> extractobj(fnarg)]
    /\ UNCHANGED <<clients, monitors, ctype, ctoken, nalloc, curtok,
                   caller_map, srvc_tree, msgbuf, cur, sent, srvcalls,
                   daemon, first_ins, ncalls, nreplies, order_vars,
                   walk_vars, ktok, conn_vars, stop_vars, fnarg, thr_vars>>

ProtNext == ProtMeta \/ ProtObj

SpecProt == ProtInit /\ [][ProtNext]_vars

\* A NUL byte occurs within the first psize bytes of the payload.
NulWithinPsize(msg) ==
    \E i \in 1..msg.hdr.psize : msg.payload[i] = 0

\* s is the string at the start of the payload: the bytes before its first
\* NUL.
StringAtStart(s, msg) ==
    /\ Len(s) < Len(msg.payload)
    /\ \A i \in 1..Len(s) : s[i] = msg.payload[i] /\ s[i] # 0
    /\ msg.payload[Len(s) + 1] = 0

\* What the tests of unit_prot.c assert of bbus_prot_extractmeta.
MetaAsTested ==
    /\ fnarg \in {MSG_extract_meta, MSG_extract_meta_and_obj} =>
           fnout.ret = STR_META_STRING
    /\ fnarg \in {MSG_extract_invalid_meta, MSG_extract_flags_not_set} =>
           fnout.ret = NULLMETA

\* C25: bbus_prot_extractmeta returns the string at the start of the
\* payload if and only if HAS_META is set and a NUL occurs within the first
\* psize payload bytes, and NULL otherwise.
C25_MetaIffFlagAndNul ==
    fnout.fn = "extractmeta" =>
        /\ fnout.ret # NULLMETA <=>
               /\ fnarg.hdr.flags \in {1, 3}
               /\ NulWithinPsize(fnarg)
        /\ fnout.ret # NULLMETA => StringAtStart(fnout.ret, fnarg)
        /\ MetaAsTested

\* The call returned NULL for a message with HAS_META set whose payload has
\* a NUL only after the first psize bytes.
C25_Witness ==
    /\ fnout.fn = "extractmeta"
    /\ fnarg = MSG_extract_invalid_meta
    /\ fnout.ret = NULLMETA

(* ------------------------------- C26 ----------------------------------- *)
\* strlen of the string at the start of the payload.
StrLen(msg) ==
    CHOOSE k \in 0..(Len(msg.payload) - 1) :
        /\ msg.payload[k + 1] = 0
        /\ \A i \in 1..k : msg.payload[i] # 0

\* The raw bytes of obj are the payload bytes from the offset up to psize.
ObjFromOffset(obj, msg, offset) ==
    /\ obj # NULLOBJ
    /\ bbus_obj_rawsize(obj) = msg.hdr.psize - offset
    /\ \A i \in 1..(msg.hdr.psize - offset) : obj[i] = msg.payload[offset + i]

\* What the tests of unit_prot.c assert of bbus_prot_extractobj.
ObjAsTested ==
    /\ fnarg = MSG_extract_obj =>
           /\ bbus_obj_rawsize(fnout.ret) = 9
           /\ ObjString(fnout.ret) = STR_A_STRING
    /\ fnarg = MSG_extract_meta_and_obj => fnout.ret = OBJ_11_TO_88
    /\ fnarg = MSG_extract_flags_not_set => fnout.ret = NULLOBJ

\* C26: bbus_prot_extractobj returns NULL when HAS_OBJECT is clear;
\* otherwise the raw bytes of the object it returns are the payload bytes
\* from offset 0, or with HAS_META set from offset strlen(meta) + 1, up to
\* psize, and its raw size is psize minus the offset.
C26_ObjAfterMeta ==
    fnout.fn = "extractobj" =>
        /\ fnarg.hdr.flags \in {0, 1} => fnout.ret = NULLOBJ
        /\ fnarg.hdr.flags = 2 => ObjFromOffset(fnout.ret, fnarg, 0)
        /\ fnarg.hdr.flags = 3 /\ NulWithinPsize(fnarg) =>
               ObjFromOffset(fnout.ret, fnarg, StrLen(fnarg) + 1)
        /\ ObjAsTested

\* The call returned the eight bytes after "meta string" and its NUL for a
\* message of 20 payload bytes with both flags set.
C26_Witness ==
    /\ fnout.fn = "extractobj"
    /\ fnarg = MSG_extract_meta_and_obj
    /\ fnout.ret = OBJ_11_TO_88
    /\ bbus_obj_rawsize(fnout.ret) = 20 - (StrLen(fnarg) + 1)

(* ------------------------------- C27 ----------------------------------- *)
\* How far below and above 0, UINT16_MAX and 2 * UINT16_MAX the sizes of
\* the payload-size scenario go.
PsizeSpan == 20

\* The sizes given to bbus_hdr_setpsize: those of the two tests (1024 and
\* 2 * UINT16_MAX), and sizes around 0, UINT16_MAX, 2 * UINT16_MAX and the
\* largest 31-bit value.
PsizeSizes ==
    {1024, 2 * UINT16_MAX}
    \cup 0..PsizeSpan
    \cup (UINT16_MAX - PsizeSpan)..(UINT16_MAX + PsizeSpan)
    \cup (2 * UINT16_MAX - PsizeSpan)..(2 * UINT16_MAX + PsizeSpan)
    \cup {2147483647 - d : d \in 0..PsizeSpan}

PsizeInit ==
    /\ ConnInit /\ StopInit /\ ThrInit /\ RouterInit
    /\ curtok = U32(0)
    /\ ktok = BigZero
    /\ fnarg \in PsizeSizes
    /\ fnout = NoRet

\* memset(&hdr, 0, sizeof(struct bbus_msg_hdr)); bbus_hdr_setpsize(&hdr,
\* size); bbus_hdr_getpsize(&hdr).
PsizeSetGet ==
    /\ fnout' = [fn  |-> "setpsize",
                 ret |-> bbus_hdr_getpsize(bbus_hdr_setpsize(ZeroHdr, fnarg))]
    /\ UNCHANGED <<clients, monitors, ctype, ctoken, nalloc, curtok,
                   caller_map, srvc_tree, msgbuf, cur, sent, srvcalls,
                   daemon, first_ins, ncalls, nreplies, order_vars,
                   walk_vars, ktok, conn_vars, stop_vars, fnarg, thr_vars>>

SpecPsize == PsizeInit /\ [][PsizeSetGet]_vars

\* C27: bbus_hdr_getpsize after bbus_hdr_setpsize(hdr, s) returns s for s
\* up to UINT16_MAX and UINT16_MAX for every larger s.
C27_PsizeCapped ==
    fnout.fn = "setpsize" =>
        /\ fnarg <= UINT16_MAX => fnout.ret = fnarg
        /\ fnarg > UINT16_MAX => fnout.ret = UINT16_MAX

\* The size 2 * UINT16_MAX of prot_set_psize_gtmax was set and read back as
\* UINT16_MAX, not as 2 * UINT16_MAX mod 2^16.
C27_Witness ==
    /\ fnout.fn = "setpsize"
    /\ fnarg = 2 * UINT16_MAX
    /\ fnout.ret = UINT16_MAX
    /\ fnout.ret # fnarg % (UINT16_MAX + 1)

(* ------------------------------- C28 ----------------------------------- *)
\* BBUS_MAGIC: the two bytes 0xBB 0xC5.
BBUS_MAGIC == 48069

\* The sizes in bytes of the fields of struct bbus_msg_hdr, in the order of
\* their declaration: magic, msgtype, sotype, errcode, token, psize, flags.
BBUS_MSGHDR_NUMFIELDS == 7
FieldSizes == <<2, 1, 1, 1, 4, 2, 1>>

\* n rounded up to a multiple of a.
align_up(n, a) == ((n + a - 1) \div a) * a

RECURSIVE packed_offset(_)
\* The offset of the i-th field when the fields follow each other without
\* padding; packed_offset(BBUS_MSGHDR_NUMFIELDS + 1) is
\* BBUS_MSGHDR_REALSIZE.
packed_offset(i) ==
    IF i = 1 THEN 0 ELSE packed_offset(i - 1) + FieldSizes[i - 1]

RECURSIVE struct_offset(_)
\* The offset of the i-th field in the struct as the compiler lays it out:
\* every field at the next multiple of its size.
struct_offset(i) ==
    IF i = 1 THEN 0
    ELSE align_up(struct_offset(i - 1) + FieldSizes[i - 1],
                  IF i > BBUS_MSGHDR_NUMFIELDS THEN 4 ELSE FieldSizes[i])

BBUS_MSGHDR_REALSIZE == packed_offset(BBUS_MSGHDR_NUMFIELDS + 1)

\* sizeof(struct bbus_msg_hdr)
BBUS_MSGHDR_SIZE == struct_offset(BBUS_MSGHDR_NUMFIELDS + 1)

\* A header with all seven fields.
WireHdr(typ, so, err, tok, psize, flags) ==
    [magic |-> BBUS_MAGIC, msgtype |-> typ, sotype |-> so, errcode |-> err,
     token |-> tok, psize |-> psize, flags |-> flags]

\* The bytes of the fields of a header, most significant byte first.
FieldBytes(h) ==
    <<<<h.magic \div 256, h.magic % 256>>,
      <<h.msgtype>>, <<h.sotype>>, <<h.errcode>>,
      <<h.token.hi \div 256, h.token.hi % 256,
        h.token.lo \div 256, h.token.lo % 256>>,
      <<h.psize \div 256, h.psize % 256>>,
      <<h.flags>>>>

RECURSIVE hdr_serialize_from(_, _)
\* The bytes of the fields i..7, one field after the other.
hdr_serialize_from(h, i) ==
    IF i > BBUS_MSGHDR_NUMFIELDS THEN <<>>
    ELSE FieldBytes(h)[i] \o hdr_serialize_from(h, i + 1)

\* Serializing a header: its fields in the order of the wire frame, without
\* padding.
hdr_serialize(h) == hdr_serialize_from(h, 1)

\* The number that the n bytes of a buffer from offset o on hold in network
\* byte order.
be_value(buf, o, n) ==
    IF n = 1 THEN buf[o + 1]
    ELSE buf[o + 1] * 256 + buf[o + 2]

\* The header that the code reads from a message buffer: the buffer is
\* used as a struct bbus_msg, so each field is read at its offset in the
\* struct.
hdr_of_buffer(buf) ==
    [magic   |-> be_value(buf, struct_offset(1), 2),
     msgtype |-> be_value(buf, struct_offset(2), 1),
     sotype  |-> be_value(buf, struct_offset(3), 1),
     errcode |-> be_value(buf, struct_offset(4), 1),
     token   |-> [hi |-> be_value(buf, struct_offset(5), 2),
                  lo |-> be_value(buf, struct_offset(5) + 2, 2)],
     psize   |-> be_value(buf, struct_offset(6), 2),
     flags   |-> be_value(buf, struct_offset(7), 1)]

\* The header of the claim's example, and headers of every message type the
\* daemon sends or receives with tokens, sizes and flags of each kind.
HDR_EXAMPLE ==
    WireHdr(BBUS_MSGTYPE_CLICALL, 0, 0, [hi |-> 4386, lo |-> 13124], 9,
            BBUS_PROT_HASMETA)

WireHdrs ==
    {HDR_EXAMPLE} \cup
    {WireHdr(t, 0, e, tok, n, f) :
        t \in {BBUS_MSGTYPE_SO, BBUS_MSGTYPE_CLICALL, BBUS_MSGTYPE_CLIREPLY},
        e \in {BBUS_PROT_EGOOD, BBUS_PROT_ENOMETHOD},
        tok \in {U32(0), U32(1), UINT_MAX},
        n \in {0, 9, 1024, UINT16_MAX},
        f \in 0..3}

HdrInit ==
    /\ ConnInit /\ StopInit /\ ThrInit /\ RouterInit
    /\ curtok = U32(0)
    /\ ktok = BigZero
    /\ fnarg \in WireHdrs
    /\ fnout = NoRet

\* The header is serialized into a zeroed message buffer.
HdrSerialize ==
    /\ fnout.fn = "none"
    /\ fnout' = [fn |-> "serialize", ret |-> hdr_serialize(fnarg)]
    /\ UNCHANGED <<clients, monitors, ctype, ctoken, nalloc, curtok,
                   caller_map, srvc_tree, msgbuf, cur, sent, srvcalls,
                   daemon, first_ins, ncalls, nreplies, order_vars,
                   walk_vars, ktok, conn_vars, stop_vars, fnarg, thr_vars>>

\* The code reads the header of the buffer that holds the serialized
\* bytes, followed by the zeroes of the buffer.
HdrParse ==
    /\ fnout.fn = "serialize"
    /\ fnout' = [fn  |-> "parse",
                 ret |-> hdr_of_buffer(fnout.ret \o <<0, 0, 0, 0>>)]
    /\ UNCHANGED <<clients, monitors, ctype, ctoken, nalloc, curtok,
                   caller_map, srvc_tree, msgbuf, cur, sent, srvcalls,
                   daemon, first_ins, ncalls, nreplies, order_vars,
                   walk_vars, ktok, conn_vars, stop_vars, fnarg, thr_vars>>

HdrNext == HdrSerialize \/ HdrParse

SpecHdr == HdrInit /\ [][HdrNext]_vars

\* The twelve bytes of the wire frame of a header.
WireFrame(h) ==
    <<187, 197, h.msgtype, h.sotype, h.errcode,
      h.token.hi \div 256, h.token.hi % 256,
      h.token.lo \div 256, h.token.lo % 256,
      h.psize \div 256, h.psize % 256, h.flags>>

\* C28: serializing a header gives the 12 bytes magic, msgtype, sotype,
\* errcode, token, psize, flags with multi-byte fields in network order,
\* whatever the padding of the struct; the example header gives
\* BB C5 07 00 00 11 22 33 44 00 09 01; and parsing the serialized bytes
\* gives back the fields.
C28_HeaderTwelveBytes ==
    /\ fnout.fn = "serialize" =>
           /\ Len(fnout.ret) = 12
           /\ fnout.ret = WireFrame(fnarg)
           /\ fnarg = HDR_EXAMPLE =>
                  fnout.ret = <<187, 197, 7, 0, 0, 17, 34, 51, 68, 0, 9, 1>>
    /\ fnout.fn = "parse" => fnout.ret = fnarg

(* ------------------------------- C29 ----------------------------------- *)
\* Elements of the arrays the codec scenario builds.
MaxArray == 2

BBUS_TYPE_INT32  == "i"
BBUS_TYPE_UINT32 == "u"
BBUS_TYPE_BYTE   == "b"
BBUS_TYPE_STRING == "s"
BBUS_TYPE_ARRAY  == "A"
BBUS_TYPE_STRUCT_START == "("
BBUS_TYPE_STRUCT_END   == ")"

RECURSIVE descr_items(_)
\* The items of a description, in order: a scalar type, or an array with
\* the type of its elements.  The parentheses of a struct group items and
\* put nothing into the buffer.
descr_items(descr) ==
    IF descr = <<>> THEN <<>>
    ELSE IF Head(descr) \in {BBUS_TYPE_STRUCT_START, BBUS_TYPE_STRUCT_END}
    THEN descr_items(Tail(descr))
    ELSE IF Head(descr) = BBUS_TYPE_ARRAY
    THEN <<[t |-> BBUS_TYPE_ARRAY, of |-> descr[2]]>>
             \o descr_items(Tail(Tail(descr)))
    ELSE <<[t |-> Head(descr), of |-> ""]>> \o descr_items(Tail(descr))

\* The four bytes of a 32-bit value in the byte order of the host (least
\* significant byte first), in two's complement for a negative value.
int32_bytes(v) ==
    <<v % 256, (v \div 256) % 256, (v \div 65536) % 256,
      (v \div 16777216) % 256>>

\* The value of four bytes read as a bbus_uint32 or as a bbus_int32.
bytes_uint32(b) == b[1] + 256 * b[2] + 65536 * b[3] + 16777216 * b[4]
bytes_int32(b) ==
    b[1] + 256 * b[2] + 65536 * b[3]
        + 16777216 * (IF b[4] >= 128 THEN b[4] - 256 ELSE b[4])

\* The bytes that inserting one scalar appends.
ins_scalar(t, v) ==
    IF t \in {BBUS_TYPE_INT32, BBUS_TYPE_UINT32} THEN int32_bytes(v)
    ELSE IF t = BBUS_TYPE_BYTE THEN <<v>>
    ELSE v \o <<0>>

RECURSIVE ins_elems(_, _)
\* The bytes of the elements of an array, one after the other.
ins_elems(t, vs) ==
    IF vs = <<>> THEN <<>>
    ELSE ins_scalar(t, Head(vs)) \o ins_elems(t, Tail(vs))

RECURSIVE ins_items(_, _)
\* The bytes that the values xs make for the items: an array is its
\* number of elements as a bbus_size and then its elements.
ins_items(items, xs) ==
    IF items = <<>> THEN <<>>
    ELSE (IF Head(items).t = BBUS_TYPE_ARRAY
          THEN int32_bytes(Len(Head(xs)))
                   \o ins_elems(Head(items).of, Head(xs))
          ELSE ins_scalar(Head(items).t, Head(xs)))
         \o ins_items(Tail(items), Tail(xs))

\* bbus_obj_frombuf: a new object holding a copy of the bytes, with the
\* extraction state at the start.
frombuf(buf) == [buf |-> [i \in 1..Len(buf) |-> buf[i]], at |-> 0]

\* bbus_obj_rawdata and bbus_obj_rawsize.
rawdata(obj) == obj.buf
rawsize(obj) == Len(obj.buf)

\* bbus_obj_build: the object with the bytes of the values.
build(descr, xs) == [buf |-> ins_items(descr_items(descr), xs), at |-> 0]

\* bbus_obj_rewind that leaves the extraction state where it is.
rewind_nowhere(obj) == obj

\* bbus_obj_rewind: the extraction state goes back to the start.
rewind(obj) == [obj EXCEPT !.at = 0]

\* Extracting one scalar at the extraction state 'at': the value and the
\* state after it, or ok = FALSE when the type does not fit the rest of
\* the buffer or a string has no NUL in it.
extr_scalar(t, buf, at) ==
    IF t \in {BBUS_TYPE_INT32, BBUS_TYPE_UINT32}
    THEN IF at + 4 > Len(buf) THEN [ok |-> FALSE, v |-> 0, at |-> at]
         ELSE [ok |-> TRUE,
               v  |-> IF t = BBUS_TYPE_INT32
                      THEN bytes_int32(SubSeq(buf, at + 1, at + 4))
                      ELSE bytes_uint32(SubSeq(buf, at + 1, at + 4)),
               at |-> at + 4]
    ELSE IF t = BBUS_TYPE_BYTE
    THEN IF at + 1 > Len(buf) THEN [ok |-> FALSE, v |-> 0, at |-> at]
         ELSE [ok |-> TRUE, v |-> buf[at + 1], at |-> at + 1]
    ELSE LET k == first_nul(buf, at + 1, Len(buf))
         IN IF k = 0 THEN [ok |-> FALSE, v |-> 0, at |-> at]
            ELSE [ok |-> TRUE, v |-> SubSeq(buf, at + 1, k - 1), at |-> k]

RECURSIVE extr_elems(_, _, _, _)
\* Extracting n elements of an array.
extr_elems(t, buf, at, n) ==
    IF n = 0 THEN [ok |-> TRUE, v |-> <<>>, at |-> at]
    ELSE LET e == extr_scalar(t, buf, at)
         IN IF ~e.ok THEN [ok |-> FALSE, v |-> <<>>, at |-> at]
            ELSE LET r == extr_elems(t, buf, e.at, n - 1)
                 IN [ok |-> r.ok, v |-> <<e.v>> \o r.v, at |-> r.at]

RECURSIVE extr_items(_, _, _)
\* Extracting the values of the items from the extraction state on.
extr_items(items, buf, at) ==
    IF items = <<>> THEN [ok |-> TRUE, v |-> <<>>, at |-> at]
    ELSE LET e == IF Head(items).t = BBUS_TYPE_ARRAY
                  THEN LET n == extr_scalar(BBUS_TYPE_UINT32, buf, at)
                       IN IF ~n.ok THEN n
                          ELSE extr_elems(Head(items).of, buf, n.at, n.v)
                  ELSE extr_scalar(Head(items).t, buf, at)
         IN IF ~e.ok THEN [ok |-> FALSE, v |-> <<>>, at |-> at]
            ELSE LET r == extr_items(Tail(items), buf, e.at)
                 IN [ok |-> r.ok, v |-> <<e.v>> \o r.v, at |-> r.at]

\* bbus_obj_parse: 0 and the values when every item could be extracted, -1
\* otherwise; the extraction state of the object moves on.
parse(obj, descr) ==
    LET r == extr_items(descr_items(descr), obj.buf, obj.at)
    IN [ret  |-> IF r.ok THEN 0 ELSE -1,
        vals |-> IF r.ok THEN r.v ELSE <<>>,
        obj  |-> [obj EXCEPT !.at = r.at]]

\* The values of each scalar type that the scenario builds objects from.
ScalarVals(t) ==
    IF t = BBUS_TYPE_INT32 THEN {-2147483647, -1, 0, 258}
    ELSE IF t = BBUS_TYPE_UINT32 THEN {0, 65538, 2147483647}
    ELSE IF t = BBUS_TYPE_BYTE THEN {0, 255}
    ELSE {<<>>, <<104, 105>>}

RECURSIVE ArrayVals(_, _)
\* The arrays of n elements of a type.
ArrayVals(t, n) ==
    IF n = 0 THEN {<<>>}
    ELSE {<<v>> \o a : v \in ScalarVals(t), a \in ArrayVals(t, n - 1)}

ItemVals(item) ==
    IF item.t = BBUS_TYPE_ARRAY
    THEN UNION {ArrayVals(item.of, n) : n \in 0..MaxArray}
    ELSE ScalarVals(item.t)

RECURSIVE MatchingVals(_)
\* The value lists that match a list of items.
MatchingVals(items) ==
    IF items = <<>> THEN {<<>>}
    ELSE {<<v>> \o r : v \in ItemVals(Head(items)),
                       r \in MatchingVals(Tail(items))}

\* Valid descriptions: each scalar, scalars in a row, a struct, arrays of
\* each kind, and an array between scalars.
Descrs ==
    {<<"i">>, <<"u">>, <<"b">>, <<"s">>, <<"i", "s">>, <<"s", "b">>,
     <<"(", "i", "s", ")">>, <<"A", "b">>, <<"A", "s">>, <<"A", "i">>,
     <<"u", "A", "b", "s">>}

\* The byte buffers given to bbus_obj_frombuf: the object bytes of the two
\* extraction tests, the empty buffer and short buffers.
ObjBufs ==
    {STR_A_STRING \o <<0>>, OBJ_11_TO_88} \cup
    UNION {ByteSeqs(n) : n \in 0..MaxPayload}

ObjInputs ==
    UNION {{[descr |-> d, xs |-> x, buf |-> NULLOBJ] :
               x \in MatchingVals(descr_items(d))} : d \in Descrs}
    \cup {[descr |-> <<>>, xs |-> <<>>, buf |-> b] : b \in ObjBufs}

\* No object has been made.
NoObjRet == [fn |-> "none", obj |-> frombuf(<<>>), ret |-> 0, vals |-> <<>>]

ObjInit ==
    /\ ConnInit /\ StopInit /\ ThrInit /\ RouterInit
    /\ curtok = U32(0)
    /\ ktok = BigZero
    /\ fnarg \in ObjInputs
    /\ fnout = NoObjRet

\* obj = bbus_obj_build(descr, xs)
ObjBuild ==
    /\ fnout.fn = "none"
    /\ fnarg.buf = NULLOBJ
    /\ fnout' = [fnout EXCEPT !.fn = "build",
                              !.obj = build(fnarg.descr, fnarg.xs)]
    /\ UNCHANGED <<clients, monitors, ctype, ctoken, nalloc, curtok,
                   caller_map, srvc_tree, msgbuf, cur, sent, srvcalls,
                   daemon, first_ins, ncalls, nreplies, order_vars,
                   walk_vars, ktok, conn_vars, stop_vars, fnarg, thr_vars>>

\* obj = bbus_obj_frombuf(buf, bufsize)
ObjFrombuf ==
    /\ fnout.fn = "none"
    /\ fnarg.buf # NULLOBJ
    /\ fnout' = [fnout EXCEPT !.fn = "frombuf", !.obj = frombuf(fnarg.buf)]
    /\ UNCHANGED <<clients, monitors, ctype, ctoken, nalloc, curtok,
                   caller_map, srvc_tree, msgbuf, cur, sent, srvcalls,
                   daemon, first_ins, ncalls, nreplies, order_vars,
                   walk_vars, ktok, conn_vars, stop_vars, fnarg, thr_vars>>

\* bbus_obj_parse(obj, descr, ...) of the object built, the first time and
\* again after the rewind.
ObjParse ==
    /\ fnout.fn \in {"build", "rewind"}
    /\ LET p == parse(fnout.obj, fnarg.descr)
       IN fnout' = [fn   |-> IF fnout.fn = "build" THEN "parse"
                             ELSE "reparse",
                    obj  |-> p.obj, ret |-> p.ret, vals |-> p.vals]
    /\ UNCHANGED <<clients, monitors, ctype, ctoken, nalloc, curtok,
                   caller_map, srvc_tree, msgbuf, cur, sent, srvcalls,
                   daemon, first_ins, ncalls, nreplies, order_vars,
                   walk_vars, ktok, conn_vars, stop_vars, fnarg, thr_vars>>

\* bbus_obj_rewind(obj) after the first parse.
ObjRewind ==
    /\ fnout.fn = "parse"
    /\ fnout' = [fnout EXCEPT !.fn = "rewind", !.obj = rewind(fnout.obj),
                              !.vals = <<>>]
    /\ UNCHANGED <<clients, monitors, ctype, ctoken, nalloc, curtok,
                   caller_map, srvc_tree, msgbuf, cur, sent, srvcalls,
                   daemon, first_ins, ncalls, nreplies, order_vars,
                   walk_vars, ktok, conn_vars, stop_vars, fnarg, thr_vars>>

ObjNext == ObjBuild \/ ObjFrombuf \/ ObjParse \/ ObjRewind

SpecObj == ObjInit /\ [][ObjNext]_vars

BBUS_ENOMEM    == 10001
BBUS_EINVALARG == 10002

\* The errors that the failing library calls of the scenario set.
LibErrors == {BBUS_ENOMEM, BBUS_EINVALARG}

\* void __bbus_seterr(int errnum): the one error variable of the library
\* takes the value.
__bbus_seterr(errnum) == last_error' = errnum

\* int bbus_lasterror(void)
bbus_lasterror == last_error

\* A library call of thread t fails with error e.
ErrFail(t, e) ==
    /\ __bbus_seterr(e)
    /\ thr' = [thr EXCEPT ![t].pc = "failed", ![t].err = e]
    /\ UNCHANGED <<clients, monitors, ctype, ctoken, nalloc, curtok,
                   caller_map, srvc_tree, msgbuf, cur, sent, srvcalls,
                   daemon, first_ins, ncalls, nreplies, order_vars,
                   walk_vars, ktok, conn_vars, stop_vars, fn_vars>>

\* Thread t asks for the last error.
ErrRead(t) ==
    /\ thr' = [thr EXCEPT ![t].pc = "read", ![t].seen = bbus_lasterror]
    /\ UNCHANGED <<clients, monitors, ctype, ctoken, nalloc, curtok,
                   caller_map, srvc_tree, msgbuf, cur, sent, srvcalls,
                   daemon, first_ins, ncalls, nreplies, order_vars,
                   walk_vars, ktok, conn_vars, stop_vars, fn_vars,
                   last_error>>

ErrNext ==
    \/ \E t \in Threads, e \in LibErrors : ErrFail(t, e)
    \/ \E t \in Threads : ErrRead(t)

SpecErr == Init /\ [][ErrNext]_vars

\* C30: what bbus_lasterror returns in a thread is the error of that
\* thread's own last failing call (no error when it has made none),
\* whatever calls the other threads have made.
C30_LastErrorPerThread ==
    \A t \in Threads : thr[t].pc = "read" => thr[t].seen = thr[t].err

(* ------------------------------- C31 ----------------------------------- *)
\* The variables of the daemon, which the library scenarios leave alone.
daemon_vars ==
    <<clients, monitors, ctype, ctoken, nalloc, curtok, caller_map,
      srvc_tree, msgbuf, cur, sent, srvcalls, daemon, first_ins, ncalls,
      nreplies, order_vars, walk_vars, ktok, conn_vars, stop_vars>>

\* The daemon as the library scenarios start it: nothing connected.
DaemonIdle ==
    /\ ConnInit /\ StopInit /\ RouterInit
    /\ curtok = U32(0)
    /\ ktok = BigZero

BBUS_EMSGINVTYPRCVD == 10008
BBUS_ESORJCTD       == 10009

\* Values of errno that a failed system call leaves.
Errnos == {4, 111}

\* Where the system lets do_session_open down, if anywhere.
OpenFails == {"none", "socket", "connect", "send", "recv"}

\* What do_session_open meets: the call that fails, the errno it leaves,
\* the message type of the daemon's answer, and whether close() of the
\* socket fails.
OpenEnvs ==
    [fail : OpenFails, errno : Errnos,
     answer : {BBUS_MSGTYPE_SOOK, BBUS_MSGTYPE_SORJCT, BBUS_MSGTYPE_SO,
               BBUS_MSGTYPE_SRVACK, BBUS_MSGTYPE_CLOSE},
     closefail : BOOLEAN]

\* __bbus_sock_close(sock): the descriptor is released; a failed close()
\* sets the error to errno.
sock_close(r, env) ==
    [r EXCEPT !.sock = "closed",
              !.err = IF env.closefail THEN env.errno ELSE r.err]

\* static int do_session_open(const char* path, int sotype): the value
\* returned, the state of the socket, the library's last error (err is its
\* value before the call) and the message type of the SO message sent.
do_session_open(sotype, env, err) ==
    LET start == [ret |-> -1, sock |-> "none", err |-> err, so |-> 0]
        errno == [start EXCEPT !.err = env.errno]
    IN IF env.fail = "socket" THEN errno
       ELSE IF env.fail = "connect" THEN [errno EXCEPT !.sock = "open"]
       ELSE IF env.fail = "send"
       THEN sock_close([errno EXCEPT !.sock = "open"], env)
       ELSE IF env.fail = "recv"
       THEN sock_close([errno EXCEPT !.sock = "open", !.so = sotype], env)
       ELSE IF env.answer = BBUS_MSGTYPE_SOOK
       THEN [start EXCEPT !.ret = 3, !.sock = "open", !.so = sotype]
       ELSE IF env.answer = BBUS_MSGTYPE_SORJCT
       THEN sock_close([start EXCEPT !.sock = "open", !.so = sotype,
                                     !.err = BBUS_ESORJCTD], env)
       ELSE sock_close([start EXCEPT !.sock = "open", !.so = sotype,
                                     !.err = BBUS_EMSGINVTYPRCVD], env)

\* No session open has been tried.
NoOpen == [fn |-> "none", ret |-> -1, sock |-> "none", so |-> 0]

OpenInit ==
    /\ DaemonIdle /\ ThrInit
    /\ fnarg \in [sotype : {BBUS_SOTYPE_MTHCL, BBUS_SOTYPE_SRVPRV},
                  env : OpenEnvs]
    /\ fnout = NoOpen

\* bbus_client_connect_wpath / bbus_service_connect_wpath call
\* do_session_open.
SessionOpen ==
    /\ fnout.fn = "none"
    /\ LET r == do_session_open(fnarg.sotype, fnarg.env, last_error)
       IN /\ fnout' = [fn |-> "do_session_open", ret |-> r.ret,
                       sock |-> r.sock, so |-> r.so]
          /\ last_error' = r.err
    /\ UNCHANGED <<daemon_vars, fnarg, thr>>

SpecOpen == OpenInit /\ [][SessionOpen]_vars

\* The daemon's answer reached do_session_open.
Answered == fnout.fn = "do_session_open" /\ fnarg.env.fail = "none"

OpenReturnsSocketIffSOOK ==
    fnout.fn = "do_session_open" =>
        ((fnout.ret >= 0 /\ fnout.sock = "open")
            <=> (Answered /\ fnarg.env.answer = BBUS_MSGTYPE_SOOK))

\* C31: do_session_open returns a connected socket if and only if the
\* daemon's answer to the SO message is SOOK; after SORJCT it returns -1
\* with the error session-open rejected, after any other message type -1
\* with the error invalid message type received, and in both cases the
\* socket is closed.
C31_SessionOpen ==
    /\ OpenReturnsSocketIffSOOK
    /\ Answered /\ fnarg.env.answer = BBUS_MSGTYPE_SORJCT =>
           /\ fnout.ret = -1
           /\ last_error = BBUS_ESORJCTD
           /\ fnout.sock = "closed"
    /\ Answered /\ fnarg.env.answer
                       \notin {BBUS_MSGTYPE_SOOK, BBUS_MSGTYPE_SORJCT} =>
           /\ fnout.ret = -1
           /\ last_error = BBUS_EMSGINVTYPRCVD
           /\ fnout.sock = "closed"

(* ------------------------------- C32 ----------------------------------- *)
BBUS_PROT_SOCKPATHMAX == 256

\* "/tmp/bbus.sock"
BBUS_PROT_DEFSOCKPATH ==
    <<"/", "t", "m", "p", "/", "b", "b", "u", "s", ".", "s", "o", "c", "k">>

\* "/tmp/newsock.sock", the path of the unit test.
PATH_NEWSOCK ==
    <<"/", "t", "m", "p", "/", "n", "e", "w", "s", "o", "c", "k", ".",
      "s", "o", "c", "k">>

\* A path of n characters.
LongPath(n) == [i \in 1..n |-> IF i = 1 THEN "/" ELSE "x"]

\* The paths given to the setter: the test's path, short paths, the
\* longest path allowed and one that is too long.
SetPaths ==
    {PATH_NEWSOCK, <<"/", "a">>, <<"/", "b">>, BBUS_PROT_DEFSOCKPATH,
     LongPath(BBUS_PROT_SOCKPATHMAX), LongPath(BBUS_PROT_SOCKPATHMAX + 1)}

\* The values of the environment variable BBUS_SOCKPATH: not set, or a
\* path.
EnvPaths == {NULLSTR, <<"/", "e", "n", "v">>, <<"/", "r", "u", "n">>}

\* The path buffer of the library before any call of the setter.
NoPath == [fn |-> "none", isset |-> FALSE, sockpath |-> NULLSTR,
           last |-> NULLSTR, got |-> NULLSTR]

\* bbus_prot_setsockpath(path): the library keeps a copy of at most
\* BBUS_PROT_SOCKPATHMAX characters of the path.
bbus_prot_setsockpath(st, path) ==
    [st EXCEPT !.isset = TRUE,
               !.sockpath = IF Len(path) > BBUS_PROT_SOCKPATHMAX
                            THEN SubSeq(path, 1, BBUS_PROT_SOCKPATHMAX)
                            ELSE path]

\* bbus_prot_getsockpath that prefers the environment variable to the
\* path set.
bbus_prot_getsockpath_env_first(st, env) ==
    IF env # NULLSTR THEN env
    ELSE IF st.isset THEN st.sockpath
    ELSE BBUS_PROT_DEFSOCKPATH

\* bbus_prot_getsockpath(): the path set if one was set, else the value of
\* BBUS_SOCKPATH if it is set, else the default path.
bbus_prot_getsockpath(st, env) ==
    IF st.isset THEN st.sockpath
    ELSE IF env # NULLSTR THEN env
    ELSE BBUS_PROT_DEFSOCKPATH

PathInit ==
    /\ DaemonIdle /\ ThrInit
    /\ fnarg \in EnvPaths
    /\ fnout = NoPath

\* bbus_prot_setsockpath(newpath)
PathSet ==
    /\ \E p \in SetPaths :
           fnout' = [bbus_prot_setsockpath(fnout, p) EXCEPT
                         !.fn = "setsockpath", !.last = p]
    /\ UNCHANGED <<daemon_vars, fnarg, thr_vars>>

\* bbus_prot_getsockpath()
PathGet ==
    /\ fnout' = [fnout EXCEPT !.fn = "getsockpath",
                              !.got = bbus_prot_getsockpath(fnout, fnarg)]
    /\ UNCHANGED <<daemon_vars, fnarg, thr_vars>>

PathNext == PathSet \/ PathGet

SpecPath == PathInit /\ [][PathNext]_vars

RECURSIVE TreeEntries(_, _)
\* The registry as a set of <<path, method>>: every method of the tree
\* with the dotted path that leads to it.
TreeEntries(node, prefix) ==
    {<<prefix \o k, node.methods[k]>> : k \in DOMAIN node.methods}
    \cup UNION {TreeEntries(node.subsrvc[k], prefix \o k \o <<".">>)
                   : k \in DOMAIN node.subsrvc}

\* The step is handle_client receiving an SRVREG from a provider.
RegisterStep ==
    /\ nalloc' = nalloc
    /\ cur' \in Live
    /\ ctype[cur'] = BBUS_CLIENT_SERVICE
    /\ msgbuf'.hdr.msgtype = BBUS_MSGTYPE_SRVREG

\* The step put an entry into the registry that was not there.
EntryInserted ==
    TreeEntries(srvc_tree', <<>>) \ TreeEntries(srvc_tree, <<>>) # {}

\* The one message sent is an SRVACK to the provider, GOOD exactly when an
\* entry was inserted and MREGERR otherwise; without a meta or without a
\* comma in it the registry is as it was; the provider stays connected.
RegisterAnswered ==
    /\ Len(sent') = 1
    /\ sent'[1].to = cur'
    /\ sent'[1].hdr.msgtype = BBUS_MSGTYPE_SRVACK
    /\ sent'[1].meta = NULLSTR
    /\ sent'[1].obj = NULLOBJ
    /\ sent'[1].hdr.errcode =
           IF EntryInserted THEN BBUS_PROT_EGOOD ELSE BBUS_PROT_EMREGERR
    /\ TreeEntries(srvc_tree, <<>>) \subseteq TreeEntries(srvc_tree', <<>>)
    /\ (bbus_prot_extractmeta(msgbuf') = NULLSTR
        \/ index(bbus_prot_extractmeta(msgbuf'), ",") = 0) =>
           /\ sent'[1].hdr.errcode = BBUS_PROT_EMREGERR
           /\ srvc_tree' = srvc_tree
    /\ cur' \in Range(clients')
    /\ ctype'[cur'] = BBUS_CLIENT_SERVICE

\* C33: every SRVREG from a provider makes the daemon send that provider
\* exactly one SRVACK, with errcode GOOD if and only if a new entry was
\* inserted into the registry; an SRVREG with no meta or with a meta
\* without a comma gets errcode MREGERR and leaves the registry unchanged;
\* the provider's session stays open.
C33_RegisterAcked == [][RegisterStep => RegisterAnswered]_vars

\* A provider whose method bbus.foo.bar is registered sent an SRVREG with
\* the meta "foo", which has no comma: it was sent MREGERR, its method is
\* still registered and it is still connected.
C33_Witness ==
    /\ cur \in Live
    /\ ctype[cur] = BBUS_CLIENT_SERVICE
    /\ msgbuf.hdr.msgtype = BBUS_MSGTYPE_SRVREG
    /\ msgbuf.meta = META_FOO
    /\ Len(sent) = 1
    /\ sent[1].dest = cur
    /\ sent[1].hdr.errcode = BBUS_PROT_EMREGERR
    /\ locate_method(PATH_BBUS_FOO_BAR, srvc_tree) = RemoteOf(cur)

(* ------------------------------- C34 ----------------------------------- *)
RECURSIVE Unambiguous(_)
\* No node of the tree has a name that is a key of its map of
\* sub-services and of its map of methods.
Unambiguous(node) ==
    /\ DOMAIN node.subsrvc \cap DOMAIN node.methods = {}
    /\ \A k \in DOMAIN node.subsrvc : Unambiguous(node.subsrvc[k])

\* C34: after any inserts no node of the service tree has a path component
\* that names both a sub-service and a method of the node.
C34_NoChildAndMethod == Unambiguous(srvc_tree)

(* ------------------------------- C35 ----------------------------------- *)
\* The step is handle_client receiving a CLICALL from a caller.
ClientCallStep ==
    /\ nalloc' = nalloc
    /\ cur' \in Live
    /\ ctype[cur'] = BBUS_CLIENT_CALLER
    /\ msgbuf'.hdr.msgtype = BBUS_MSGTYPE_CLICALL

\* The CLIREPLYs of the step that the caller received, and the SRVCALLs of
\* the step that anyone received.
RepliesToCaller ==
    {i \in 1..Len(sent') :
        /\ sent'[i].hdr.msgtype = BBUS_MSGTYPE_CLIREPLY
        /\ sent'[i].dest = cur'}

CallsDelivered ==
    {i \in 1..Len(sent') :
        /\ sent'[i].hdr.msgtype = BBUS_MSGTYPE_SRVCALL
        /\ sent'[i].dest # 0}

CallerStillOpen ==
    /\ daemon' = "running"
    /\ cur' \in Range(clients')
    /\ ctype'[cur'] = BBUS_CLIENT_CALLER

\* One CLIREPLY reached the caller and no SRVCALL anyone.
OutcomeReply ==
    /\ Cardinality(RepliesToCaller) = 1
    /\ CallsDelivered = {}
    /\ CallerStillOpen

\* One SRVCALL reached a connected provider and no CLIREPLY the caller.
OutcomeForward ==
    /\ Cardinality(CallsDelivered) = 1
    /\ \A i \in CallsDelivered :
           /\ sent'[i].dest \in Live
           /\ ctype[sent'[i].dest] = BBUS_CLIENT_SERVICE
    /\ RepliesToCaller = {}
    /\ CallerStillOpen

\* The caller was closed and neither message reached anyone.
OutcomeClose ==
    /\ daemon' = "running"
    /\ cur' \notin Range(clients')
    /\ RepliesToCaller = {}
    /\ CallsDelivered = {}

\* C35: a CLICALL received from an open caller has exactly one outcome: one
\* CLIREPLY reaches that caller, or one SRVCALL reaches a provider, or the
\* caller's session is closed without a reply; a CLIREPLY and a delivered
\* SRVCALL never come of the same CLICALL, and after a reply or a forward
\* the caller's session is still open.
C35_OneOutcomePerCall ==
    [][ClientCallStep =>
          (OutcomeReply \/ OutcomeForward \/ OutcomeClose)]_vars

(* ------------------------------- C36 ----------------------------------- *)
\* C36: every element of the monitor list refers to a session that is in
\* the client list.
C36_MonitorsAreClients == Range(monitors) \subseteq Range(clients)

(* ------------------------------- C37 ----------------------------------- *)
\* The step is handle_client receiving an SRVREPLY from a provider.
ServiceReplyStep ==
    /\ nalloc' = nalloc
    /\ cur' \in Live
    /\ ctype[cur'] = BBUS_CLIENT_SERVICE
    /\ msgbuf'.hdr.msgtype = BBUS_MSGTYPE_SRVREPLY

\* Every CLIREPLY of the step that reached a session reached the caller
\* whose token the SRVREPLY carries, and an SRVCALL with that token had
\* been delivered to the provider of the SRVREPLY and not answered.
RelayedOnlyForOwnCall ==
    \A i \in 1..Len(sent') :
        (sent'[i].hdr.msgtype = BBUS_MSGTYPE_CLIREPLY /\ sent'[i].dest # 0)
        => /\ msgbuf'.hdr.token \in Range(srvcalls[cur'])
           /\ ctype[sent'[i].dest] = BBUS_CLIENT_CALLER
           /\ ctoken[sent'[i].dest] = msgbuf'.hdr.token

\* C37: a caller receives a CLIREPLY relayed from an SRVREPLY only when
\* the provider that sent the SRVREPLY holds an unanswered call of that
\* caller.
C37_ReplyOnlyFromCalledProvider ==
    [][ServiceReplyStep => RelayedOnlyForOwnCall]_vars

(* ------------------------------- C38 ----------------------------------- *)
BBUS_ENOMETHOD  == 10013
BBUS_EMETHODERR == 10014

\* conn->methods of the provider: the names bbus_register_method inserted.
ConnMethods == {<<"b", "a", "r">>, <<"b", "a", "z">>}

\* What one call of bbus_listen_method_calls meets: the result of waiting
\* for the socket (-1 error, 0 timeout, 1 readable), whether the receive
\* and the send fail, the message received (type, token, the string at the
\* start of the buffer, the object bytes) and what the callback returns for
\* it (NULLOBJ: the callback fails).
ListenEnvs ==
    [ready : {-1, 0, 1}, rcvfail : BOOLEAN, sendfail : BOOLEAN,
     msgtype : {BBUS_MSGTYPE_SRVCALL, BBUS_MSGTYPE_SRVACK,
                BBUS_MSGTYPE_CLOSE},
     token : {U32(1), U32(2), UINT_MAX},
     meta : ConnMethods \cup {<<"q", "u", "x">>},
     obj : {OBJ_X},
     cbret : {NULLOBJ, OBJ_X, OBJ_Y_Z}]

\* The SRVREPLY header: memset to zero, then type, token and error code.
ReplyHdr(token, errcode) ==
    [ZeroHdr EXCEPT !.msgtype = BBUS_MSGTYPE_SRVREPLY, !.token = token,
                    !.errcode = errcode]

\* One __bbus_sendv_msg of the provider: header, object bytes, result.
ListenSend(hdr, obj, env) ==
    [hdr |-> hdr, obj |-> obj, ret |-> IF env.sendfail THEN -1 ELSE 0]

\* bbus_listen_method_calls that leaves the token of the reply at the zero
\* of the memset.
bbus_listen_method_calls_no_token(methods, env, err) ==
    IF env.ready < 0 THEN [ret |-> -1, sent |-> <<>>, err |-> err]
    ELSE IF env.ready = 0 THEN [ret |-> 0, sent |-> <<>>, err |-> err]
    ELSE IF env.rcvfail THEN [ret |-> -1, sent |-> <<>>, err |-> err]
    ELSE IF env.msgtype # BBUS_MSGTYPE_SRVCALL
    THEN [ret |-> -1, sent |-> <<>>, err |-> BBUS_EMSGINVTYPRCVD]
    ELSE LET found  == env.meta \in methods
             objret == IF found THEN env.cbret ELSE NULLOBJ
             hdr    == ReplyHdr(U32(0),
                           IF ~found THEN BBUS_PROT_ENOMETHOD
                           ELSE IF objret = NULLOBJ
                           THEN BBUS_PROT_EMETHODERR
                           ELSE BBUS_PROT_EGOOD)
             newerr == IF ~found THEN BBUS_ENOMETHOD
                       ELSE IF objret = NULLOBJ THEN BBUS_EMETHODERR
                       ELSE err
         IN [ret  |-> IF env.sendfail \/ hdr.errcode # 0 THEN -1 ELSE 0,
             sent |-> <<ListenSend(hdr, objret, env)>>,
             err  |-> newerr]

\* int bbus_listen_method_calls(conn, tv): the value returned, the messages
\* sent to the daemon and the library's last error (err before the call).
\* The receive buffer is zeroed before the receive, so extract_meta always
\* finds a NUL and returns the string at the start of the buffer.
bbus_listen_method_calls(methods, env, err) ==
    IF env.ready < 0 THEN [ret |-> -1, sent |-> <<>>, err |-> err]
    ELSE IF env.ready = 0 THEN [ret |-> 0, sent |-> <<>>, err |-> err]
    ELSE IF env.rcvfail THEN [ret |-> -1, sent |-> <<>>, err |-> err]
    ELSE IF env.msgtype # BBUS_MSGTYPE_SRVCALL
    THEN [ret |-> -1, sent |-> <<>>, err |-> BBUS_EMSGINVTYPRCVD]
    ELSE LET found  == env.meta \in methods
             objret == IF found THEN env.cbret ELSE NULLOBJ
             hdr    == ReplyHdr(env.token,
                           IF ~found THEN BBUS_PROT_ENOMETHOD
                           ELSE IF objret = NULLOBJ
                           THEN BBUS_PROT_EMETHODERR
                           ELSE BBUS_PROT_EGOOD)
             newerr == IF ~found THEN BBUS_ENOMETHOD
                       ELSE IF objret = NULLOBJ THEN BBUS_EMETHODERR
                       ELSE err
         IN [ret  |-> IF env.sendfail \/ hdr.errcode # 0 THEN -1 ELSE 0,
             sent |-> <<ListenSend(hdr, objret, env)>>,
             err  |-> newerr]

\* The provider before a call of bbus_listen_method_calls.
NoListen == [fn |-> "none", ret |-> 0, sent |-> <<>>]

ListenInit ==
    /\ DaemonIdle /\ ThrInit
    /\ fnarg \in ListenEnvs
    /\ fnout = NoListen

\* The provider calls bbus_listen_method_calls(conn, tv).
Listen ==
    /\ fnout.fn = "none"
    /\ LET r == bbus_listen_method_calls(ConnMethods, fnarg, last_error)
       IN /\ fnout' = [fn |-> "listen", ret |-> r.ret, sent |-> r.sent]
          /\ last_error' = r.err
    /\ UNCHANGED <<daemon_vars, fnarg, thr>>

SpecListen == ListenInit /\ [][Listen]_vars

\* The call received an SRVCALL.
CallReceived ==
    /\ fnout.fn = "listen"
    /\ fnarg.ready = 1
    /\ ~fnarg.rcvfail
    /\ fnarg.msgtype = BBUS_MSGTYPE_SRVCALL

\* C38: bbus_listen_method_calls answers every SRVCALL it receives with
\* exactly one SRVREPLY that carries the token of the SRVCALL: with errcode
\* NOMETHOD and no object when no callback is registered under the meta
\* name, with errcode METHODERR and no object when the callback fails, and
\* with errcode 0 and the returned object otherwise.
C38_EveryCallAnswered ==
    CallReceived =>
        /\ Len(fnout.sent) = 1
        /\ fnout.sent[1].hdr.msgtype = BBUS_MSGTYPE_SRVREPLY
        /\ fnout.sent[1].hdr.token = fnarg.token
        /\ fnout.sent[1].hdr.errcode =
               IF fnarg.meta \notin ConnMethods THEN BBUS_PROT_ENOMETHOD
               ELSE IF fnarg.cbret = NULLOBJ THEN BBUS_PROT_EMETHODERR
               ELSE BBUS_PROT_EGOOD
        /\ fnout.sent[1].obj =
               IF fnarg.meta \in ConnMethods THEN fnarg.cbret ELSE NULLOBJ

\* An SRVCALL with token UINT_MAX for the registered method "bar" was
\* answered with the object the callback returned and the same token.
C38_Witness ==
    /\ CallReceived
    /\ fnarg.token = UINT_MAX
    /\ fnarg.meta = <<"b", "a", "r">>
    /\ fnarg.cbret = OBJ_Y_Z
    /\ Len(fnout.sent) = 1
    /\ fnout.sent[1].ret = 0
    /\ fnout.sent[1].hdr.token = UINT_MAX
    /\ fnout.sent[1].hdr.errcode = BBUS_PROT_EGOOD
    /\ fnout.sent[1].obj = OBJ_Y_Z
    /\ fnout.ret = 0

(* ------------------------------- C39 ----------------------------------- *)
\* The i-th message of the handler is a CLIREPLY.
IsCliReply(i) == sent[i].hdr.msgtype = BBUS_MSGTYPE_CLIREPLY

\* The i-th message is the reply handle_clientcall builds after the send of
\* the SRVCALL to the provider failed.
AfterFailedForward(i) ==
    /\ i > 1
    /\ sent[i - 1].hdr.msgtype = BBUS_MSGTYPE_SRVCALL
    /\ sent[i - 1].ret < 0

\* C39: every CLIREPLY the daemon sends with errcode GOOD and an object has
\* HAS_OBJECT set and psize equal to the raw size of that object, for local
\* and for relayed replies; every CLIREPLY with a nonzero errcode built
\* after a failed forward carries no meta, no object, no flags and psize 0.
C39_ReplyHeaderMatchesPayload ==
    \A i \in 1..Len(sent) :
        IsCliReply(i) =>
            /\ (sent[i].hdr.errcode = BBUS_PROT_EGOOD /\ sent[i].obj # NULLOBJ)
                   => /\ BBUS_HDR_ISFLAGSET(sent[i].hdr, BBUS_PROT_HASOBJECT)
                      /\ sent[i].hdr.psize = bbus_obj_rawsize(sent[i].obj)
            /\ (sent[i].hdr.errcode # BBUS_PROT_EGOOD /\ AfterFailedForward(i))
                   => /\ sent[i].meta = NULLSTR
                      /\ sent[i].obj = NULLOBJ
                      /\ sent[i].hdr.flags = 0
                      /\ sent[i].hdr.psize = 0

(* ------------------------------- C40 ----------------------------------- *)
ErrSpan == 25

__BBUS_MAX_ERR == 10020

\* static const char* const error_descr[]: the strings of the initialiser.
error_descr ==
    <<"success",
      "out of memory",
      "invalid argument",
      "invalid busybus object format",
      "not enough space in buffer",
      "connection closed by remote peer",
      "invalid message format",
      "wrong magic number in received message",
      "received message of incorrect type",
      "session open rejected",
      "didn't manage to send all data",
      "received less data, than expected",
      "internal logic error",
      "no such method",
      "internal method error",
      "poll interrupted by a signal",
      "error registering the method",
      "invalid key type used on a hashmap">>

\* What a read of error_descr[i] past the end of the array can give: a
\* pointer that is not a string (the caller faults or prints garbage) or
\* the address of some other string of the program.
PastTheTable == {"<fault>", "<garbage>", "invalid error code"}

\* error_descr[i], C indexing from 0; junk is the outcome of a read past
\* the end.
descr_at(i, junk) ==
    IF i < Len(error_descr) THEN error_descr[i + 1] ELSE junk

\* strerror(errnum) of the C library, for the codes below BBUS_ESUCCESS.
strerror(errnum) == "<strerror>"

\* const char* bbus_strerror(int errnum)
bbus_strerror(errnum, junk) ==
    IF errnum < BBUS_ESUCCESS THEN strerror(errnum)
    ELSE IF errnum >= __BBUS_MAX_ERR THEN "invalid error code"
    ELSE descr_at(errnum - BBUS_ESUCCESS, junk)

\* The codes the program asks the description of.
ErrNums == (BBUS_ESUCCESS - ErrSpan)..(__BBUS_MAX_ERR + ErrSpan)

NoStr == [fn |-> "none", text |-> ""]

StrInit ==
    /\ DaemonIdle /\ ThrInit
    /\ fnarg \in ErrNums
    /\ fnout = NoStr

\* The program calls bbus_strerror(fnarg).
StrError ==
    /\ fnout.fn = "none"
    /\ \E junk \in PastTheTable :
           fnout' = [fn |-> "strerror", text |-> bbus_strerror(fnarg, junk)]
    /\ UNCHANGED <<daemon_vars, fnarg, thr_vars>>

SpecStr == StrInit /\ [][StrError]_vars

\* C40: for every code e with BBUS_ESUCCESS <= e < __BBUS_MAX_ERR the index
\* e - BBUS_ESUCCESS is inside the description table and bbus_strerror(e)
\* returns the entry at that index; for e >= __BBUS_MAX_ERR it returns
\* "invalid error code".
C40_StrerrorInsideTable ==
    fnout.fn = "strerror" =>
        /\ (fnarg >= BBUS_ESUCCESS /\ fnarg < __BBUS_MAX_ERR)
               => /\ fnarg - BBUS_ESUCCESS < Len(error_descr)
                  /\ fnout.text = error_descr[fnarg - BBUS_ESUCCESS + 1]
        /\ fnarg >= __BBUS_MAX_ERR => fnout.text = "invalid error code"

====
